---------------------------- MODULE Spec2Model ----------------------------
(***************************************************************************)
(* AutoRenamer v2.0: the rename planning / conflict resolution engine, the *)
(* executor (RenameApp._worker_run), the undo engine (_worker_undo) and    *)
(* the history store, modelled from src/AutoRenamer_v2.0.py.               *)
(*                                                                         *)
(* File names and paths are sequences of one-character strings, so that    *)
(* the date-prefix regex, os.path.splitext, the _NNN formatting, casefold  *)
(* and the path sort are computed the way the code computes them.  The     *)
(* token "sz" stands for the single character U+00DF (sharp s), whose      *)
(* casefold is the two characters "ss"; "/" stands for os.sep.             *)
(***************************************************************************)
EXTENDS Integers, Sequences, FiniteSets, TLC

VARIABLES
    os_nt,          \* os.name == 'nt'                       (_is_windows)
    fs_ci,          \* the file system compares names case-insensitively
    fs,             \* the files on disk: records [dir, name, id]
    locked,         \* file ids whose rename raises (PermissionError)
    unlistable,     \* directories whose os.listdir / os.scandir raises
    ui,             \* target_path, is_single_file and the option widgets
    started,        \* runs and undos started so far
    processing,     \* RenameApp.processing
    cancel_event,   \* RenameApp._cancel_event
    worker,         \* the worker thread: its position and locals
    q,              \* RenameApp._q, the worker -> UI event queue
    history,        \* rows of rename_history, oldest first
    next_id,        \* source of fresh entry ids (uuid4)
    done,           \* results the UI received (_on_processing_done / _on_undo_done)
    obs,            \* observation log of the run in flight (history variable)
    precheck_token, \* RenameApp._precheck_token
    preview_token,  \* RenameApp._preview_token
    threads,        \* the _precheck_worker / _preview_worker threads in flight
    view            \* the conflict estimate and the preview table on display

\* the state of the conflict estimate and of the preview
planning == <<precheck_token, preview_token, threads, view>>

vars == <<os_nt, fs_ci, fs, locked, unlistable, ui, started, processing, cancel_event,
          worker, q, history, next_id, done, obs, planning>>

None == "None"        \* None where the other values are strings
NoName == <<>>        \* None (or the empty string) where the other values are names

\* ------------------------------------------------------------------ bounds
MaxFiles == 3        \* files on disk in the initial state
MaxOps   == 2        \* runs + undos started in one behaviour
MaxRequests == 3     \* conflict estimates + previews requested in one behaviour

\* ------------------------------------------------------------ characters
Digits == <<"0", "1", "2", "3", "4", "5", "6", "7", "8", "9">>
DigitSet == {Digits[k] : k \in 1..10}

\* ord() of the characters that occur; os.sep is '\' (92) on Windows, '/' (47) else.
Ord(c) ==
    CASE c = "."  -> 46
      [] c = "/"  -> IF os_nt THEN 92 ELSE 47
      [] c \in DigitSet -> 47 + (CHOOSE k \in 1..10 : Digits[k] = c)
      [] c = "S"  -> 83
      [] c = "_"  -> 95
      [] c = "d"  -> 100
      [] c = "m"  -> 109
      [] c = "p"  -> 112
      [] c = "r"  -> 114
      [] c = "s"  -> 115
      [] c = "t"  -> 116
      [] c = "sz" -> 223

Min(a, b) == IF a < b THEN a ELSE b

\* Python's str.__lt__: code-point lexicographic order.
StrLess(a, b) ==
    \/ Len(a) < Len(b) /\ \A j \in 1..Len(a) : a[j] = b[j]
    \/ \E k \in 1..Min(Len(a), Len(b)) :
          /\ Ord(a[k]) < Ord(b[k])
          /\ \A j \in 1..(k-1) : a[j] = b[j]

\* str.casefold(): full case folding, sharp s becomes "ss".
CasefoldChar(c) ==
    CASE c = "S"  -> <<"s">>
      [] c = "sz" -> <<"s", "s">>
      [] OTHER    -> <<c>>

RECURSIVE casefold(_)
casefold(s) == IF s = <<>> THEN <<>> ELSE CasefoldChar(Head(s)) \o casefold(Tail(s))

\* str.lower(): simple lower-casing, sharp s stays.
lower(s) == [k \in 1..Len(s) |-> IF s[k] = "S" THEN "s" ELSE s[k]]

\* a in b (substring test)
Contains(sub, s) ==
    \E k \in 0..(Len(s) - Len(sub)) : SubSeq(s, k + 1, k + Len(sub)) = sub

\* f"{i:03d}"
Format03(i) ==
    LET low == <<Digits[((i \div 100) % 10) + 1], Digits[((i \div 10) % 10) + 1],
                 Digits[(i % 10) + 1]>>
    IN  IF i < 1000 THEN low ELSE <<Digits[((i \div 1000) % 10) + 1]>> \o low

\* os.path.splitext on a bare file name: split at the last dot unless only dots precede it.
splitext(p) ==
    LET dots == {k \in 1..Len(p) : p[k] = "."}
        dot  == IF dots = {} THEN 0 ELSE CHOOSE k \in dots : \A j \in dots : j <= k
    IN  IF dot > 0 /\ \E k \in 1..(dot-1) : p[k] # "."
        THEN [stem |-> SubSeq(p, 1, dot - 1), suffix |-> SubSeq(p, dot, Len(p))]
        ELSE [stem |-> p, suffix |-> <<>>]

MutDatePrefixNineDigits(name) ==
    /\ Len(name) >= 10
    /\ \A k \in 1..9 : name[k] \in DigitSet
    /\ name[10] = "_"

\* DATE_PREFIX_RE = ^\d{8}_ , as re.match applies it
DATE_PREFIX_RE(name) ==
    /\ Len(name) >= 9
    /\ \A k \in 1..8 : name[k] \in DigitSet
    /\ name[9] = "_"

MutPrefixCheckOff(filename) == FALSE

has_any_date_prefix(filename) == DATE_PREFIX_RE(filename)

is_windows == os_nt

name_key(name) == IF is_windows THEN casefold(name) ELSE name


\* ------------------------------------------------------------ file system
Root == <<"r">>
Sub  == <<"r", "/", "d">>
Dirs == {Root, Sub}

\* sub-directories of a directory (they occupy names in os.listdir too)
SubdirNames(dir) == IF dir = Root THEN {<<"d">>} ELSE {}

\* str(Path(dir) / name)
PathStr(dir, name) == dir \o <<"/">> \o name

\* how the file system itself compares names: byte-wise, or ignoring ASCII case
FsKey(name) == IF fs_ci THEN lower(name) ELSE name

Lookup(F, dir, name) == {f \in F : f.dir = dir /\ FsKey(f.name) = FsKey(name)}

\* Path.exists()
exists(F, dir, name) == Lookup(F, dir, name) # {}

\* os.listdir(dir); callers test dir \in unlistable first
listdir(F, dir) == {f.name : f \in {g \in F : g.dir = dir}} \cup SubdirNames(dir)

\* _safe_rename(src, dst): os.rename / Path.rename.  Raises when the source is
\* missing or locked, and on Windows when the destination exists; on POSIX an
\* existing destination file is replaced silently.
safe_rename(F, dir, src, dst) ==
    LET s == Lookup(F, dir, src)
        d == Lookup(F, dir, dst)
    IN  IF s = {} \/ (\E f \in s : f.id \in locked)
        THEN [ok |-> FALSE, fs |-> F]
        ELSE IF d # {} /\ d # s /\ is_windows
        THEN [ok |-> FALSE, fs |-> F]
        ELSE [ok |-> TRUE,
              fs |-> ((F \ s) \ d) \cup {[dir |-> dir, name |-> dst, id |-> f.id] : f \in s}]

\* ------------------------------------------------------ conflict resolver
max_tries == 999

\* cand of line 784 for index i, and the test of line 785
MutIndexNameTwoDigits(stem, suffix, i) ==
    stem \o <<"_", Digits[((i \div 10) % 10) + 1], Digits[(i % 10) + 1]>> \o suffix

IndexName(stem, suffix, i) == stem \o <<"_">> \o Format03(i) \o suffix

IndexFree(stem, suffix, existing_keys, reserved_keys, i) ==
    /\ name_key(IndexName(stem, suffix, i)) \notin existing_keys
    /\ name_key(IndexName(stem, suffix, i)) \notin reserved_keys

\* the loop of lines 782-786 over the indices lo..hi in rising order: it returns
\* at the first index whose candidate is in neither set.  The indices after lo
\* are walked half by half, the lower half first, which keeps the nesting
\* shallow for max_tries indices.
RECURSIVE TryIndex(_, _, _, _, _, _)
TryIndex(stem, suffix, existing_keys, reserved_keys, lo, hi) ==
    LET mid == (lo + 1 + hi) \div 2
    IN  IF lo > hi
        THEN [ok |-> FALSE, name |-> <<>>, idx |-> max_tries + 1]
        ELSE IF IndexFree(stem, suffix, existing_keys, reserved_keys, lo)
        THEN [ok |-> TRUE, name |-> IndexName(stem, suffix, lo), idx |-> lo]
        ELSE IF \E i \in (lo + 1)..mid : IndexFree(stem, suffix, existing_keys, reserved_keys, i)
        THEN TryIndex(stem, suffix, existing_keys, reserved_keys, lo + 1, mid)
        ELSE TryIndex(stem, suffix, existing_keys, reserved_keys, mid + 1, hi)

MutResolveReusesFirstIndex(base_name, existing_keys, reserved_keys) ==
    IF name_key(base_name) \notin existing_keys /\ name_key(base_name) \notin reserved_keys
    THEN [ok |-> TRUE, name |-> base_name, idx |-> 0]
    ELSE LET sp == splitext(base_name)
         IN  [ok |-> TRUE, name |-> sp.stem \o <<"_">> \o Format03(1) \o sp.suffix, idx |-> 1]

MutResolveExhaustedTakesBase(base_name, existing_keys, reserved_keys) ==
    LET sp == splitext(base_name)
        r  == TryIndex(sp.stem, sp.suffix, existing_keys, reserved_keys, 1, max_tries)
    IN  IF name_key(base_name) \notin existing_keys /\ name_key(base_name) \notin reserved_keys
        THEN [ok |-> TRUE, name |-> base_name, idx |-> 0]
        ELSE IF r.ok THEN r ELSE [ok |-> TRUE, name |-> base_name, idx |-> 0]

\* _resolve_conflict_auto_index: ok = FALSE stands for the RuntimeError
resolve_conflict_auto_index(base_name, existing_keys, reserved_keys) ==
    IF name_key(base_name) \notin existing_keys /\ name_key(base_name) \notin reserved_keys
    THEN [ok |-> TRUE, name |-> base_name, idx |-> 0]
    ELSE LET sp == splitext(base_name)
         IN  TryIndex(sp.stem, sp.suffix, existing_keys, reserved_keys, 1, max_tries)


\* ------------------------------------------------------------ date source
D1 == <<"2", "0", "2", "4", "0", "1", "0", "1">>
D2 == <<"2", "0", "2", "4", "0", "1", "0", "2">>
Dates == {D1, D2}

\* The files that may be on disk initially, by file id: where, under which name,
\* and what the date sources report for them.
Universe ==
    <<[dir |-> Root, name |-> <<"s", "s", ".", "t">>],
      [dir |-> Root, name |-> <<"sz", ".", "t">>],
      [dir |-> Root, name |-> D1 \o <<"_", "s", "s", ".", "t">>],
      [dir |-> Root, name |-> D1 \o <<"_", "S", "S", ".", "t">>],
      [dir |-> Root, name |-> D1 \o <<"_", "s", "s", "_", "0", "0", "1", ".", "t">>],
      [dir |-> Sub,  name |-> <<"s", "s", ".", "t">>]>>

Ids == 1..Len(Universe)

ProfileA == [mtime |-> D1, ctime |-> D1, exif_date |-> NoName, exif_note |-> "exif_missing"]
ProfileB == [mtime |-> D2, ctime |-> D1, exif_date |-> D1, exif_note |-> None]

\* Media files: three videos and a photo, with what Pillow, ffprobe and hachoir
\* report for them.  Pillow cannot open a video, and cannot be imported for the
\* photo; ffprobe is not installed where ffprobe_note says so.
Media ==
    <<[dir |-> Root, name |-> <<"r", ".", "m", "p", "4">>],
      [dir |-> Root, name |-> <<"s", ".", "m", "p", "4">>],
      [dir |-> Root, name |-> <<"t", ".", "m", "p", "4">>],
      [dir |-> Root, name |-> <<"d", ".", "t">>]>>

MediaIds == (Len(Universe) + 1)..(Len(Universe) + Len(Media))

MediaFile(i) ==
    [dir |-> Media[i - Len(Universe)].dir, name |-> Media[i - Len(Universe)].name, id |-> i]

ProfileTagged ==
    [mtime |-> D2, ctime |-> D1, exif_date |-> NoName, exif_note |-> "exif_unavailable",
     ffprobe_date |-> D1, ffprobe_note |-> None,
     hachoir_date |-> NoName, hachoir_note |-> "hachoir_missing"]
ProfileHachoir ==
    [mtime |-> D2, ctime |-> D1, exif_date |-> NoName, exif_note |-> "exif_unavailable",
     ffprobe_date |-> NoName, ffprobe_note |-> "ffprobe_missing",
     hachoir_date |-> D1, hachoir_note |-> None]
ProfileBare ==
    [mtime |-> D2, ctime |-> D1, exif_date |-> NoName, exif_note |-> "exif_unavailable",
     ffprobe_date |-> NoName, ffprobe_note |-> "ffprobe_failed",
     hachoir_date |-> NoName, hachoir_note |-> "video_meta_missing"]
ProfileNoPillow ==
    [mtime |-> D2, ctime |-> D1, exif_date |-> NoName, exif_note |-> "exif_unavailable"]

\* os.stat / the EXIF reader / the video metadata readers, per file id
attrs ==
    [i \in Ids \cup MediaIds |->
        CASE i = 2 -> ProfileB
          [] i = Len(Universe) + 1 -> ProfileTagged
          [] i = Len(Universe) + 2 -> ProfileHachoir
          [] i = Len(Universe) + 3 -> ProfileBare
          [] i = Len(Universe) + 4 -> ProfileNoPillow
          [] OTHER -> ProfileA]

\* Path.suffix
PathSuffix(name) ==
    LET dots == {k \in 1..Len(name) : name[k] = "."}
        dot  == IF dots = {} THEN 0 ELSE CHOOSE k \in dots : \A j \in dots : j <= k
    IN  IF dot > 1 /\ dot < Len(name) THEN SubSeq(name, dot, Len(name)) ELSE <<>>

\* of _VIDEO_META_SUFFIXES, the one that names of the model carry
VIDEO_META_SUFFIXES == {<<".", "m", "p", "4">>}

\* _read_video_datetime: ffprobe first, hachoir where ffprobe found nothing
read_video_datetime(a) ==
    IF a.ffprobe_date # NoName THEN [date |-> a.ffprobe_date, note |-> None]
    ELSE IF a.ffprobe_note \in {"ffprobe_missing", "ffprobe_failed", "video_meta_missing",
                                "video_meta_unavailable"}
    THEN IF a.hachoir_date # NoName THEN [date |-> a.hachoir_date, note |-> None]
         ELSE [date |-> NoName,
               note |-> IF a.hachoir_note # None THEN a.hachoir_note ELSE a.ffprobe_note]
    ELSE [date |-> NoName, note |-> a.ffprobe_note]

MutFallbackNoteDropped(v_note, note_code) == None

\* line 1001: v_note or note_code or 'meta_missing'
fallback_note(v_note, note_code) ==
    IF v_note # None THEN v_note
    ELSE IF note_code # None THEN note_code
    ELSE "meta_missing"

\* _get_date_prefix: (YYYYMMDD, note_code).  A missing file makes stat() and
\* every metadata reader fail; the caller drops the note of a result without a
\* date (line 1092), so the note of that case is not told apart further.
get_date_prefix(F, dir, name, date_source) ==
    LET hit == Lookup(F, dir, name)
        a   == attrs[(CHOOSE f \in hit : TRUE).id]
        is_video == lower(PathSuffix(name)) \in VIDEO_META_SUFFIXES
        v   == IF is_video THEN read_video_datetime(a) ELSE [date |-> NoName, note |-> None]
    IN  IF date_source = "ctime"
        THEN IF hit = {} THEN [date |-> NoName, note |-> None]
                         ELSE [date |-> a.ctime, note |-> None]
        ELSE IF date_source = "exif"
        THEN IF hit = {} THEN [date |-> NoName, note |-> "exif_unavailable"]
             ELSE IF a.exif_date # NoName THEN [date |-> a.exif_date, note |-> None]
             ELSE IF v.date # NoName THEN [date |-> v.date, note |-> None]
             ELSE [date |-> a.mtime, note |-> fallback_note(v.note, a.exif_note)]
        ELSE IF hit = {} THEN [date |-> NoName, note |-> None]
                         ELSE [date |-> a.mtime, note |-> None]

\* ------------------------------------------------------------------ scan
Perms(S) == {o \in [1..Cardinality(S) -> S] : \A i, j \in 1..Cardinality(S) : o[i] = o[j] => i = j}

\* a scan that gives up at the first directory it cannot read
MutScanAbortsOnError(F, folder, include_subfolders) ==
    IF folder \in unlistable \/ (include_subfolders /\ unlistable # {}) THEN {}
    ELSE {[dir |-> f.dir, name |-> f.name] :
             f \in {g \in F : g.dir = folder \/ (include_subfolders /\ folder = Root)}}

\* what os.scandir (files only) / os.walk yields under folder, and the directories that raised
Found(F, folder, include_subfolders) ==
    LET here == {[dir |-> f.dir, name |-> f.name] : f \in {g \in F : g.dir = folder}}
        below == IF folder = Root /\ Sub \notin unlistable
                 THEN {[dir |-> f.dir, name |-> f.name] : f \in {g \in F : g.dir = Sub}}
                 ELSE {}
    IN  IF folder \in unlistable THEN {}
        ELSE IF include_subfolders THEN here \cup below ELSE here

ScanErrors(folder, include_subfolders) ==
    IF folder \in unlistable THEN {folder}
    ELSE IF include_subfolders /\ folder = Root /\ Sub \in unlistable THEN {Sub}
    ELSE {}

\* the sort key of line 763
SortKey(p) == IF is_windows THEN casefold(PathStr(p.dir, p.name)) ELSE PathStr(p.dir, p.name)

\* list.sort(key=...): stable, so entries with equal keys keep the lister's order
InsertStable(sorted, x) ==
    LET n == Cardinality({k \in 1..Len(sorted) : ~StrLess(SortKey(x), SortKey(sorted[k]))})
    IN  SubSeq(sorted, 1, n) \o <<x>> \o SubSeq(sorted, n + 1, Len(sorted))

RECURSIVE SortStable(_)
SortStable(s) ==
    IF s = <<>> THEN <<>>
    ELSE InsertStable(SortStable(SubSeq(s, 1, Len(s) - 1)), s[Len(s)])

\* _iter_files_tolerant(folder, include_subfolders), the lister yielding `order`
iter_files_tolerant(order, folder, include_subfolders) ==
    [files |-> SortStable(order), errors |-> ScanErrors(folder, include_subfolders)]

\* ---------------------------------------------------------------- filter
NoFilter == [exts |-> {}, inc |-> <<>>, exc |-> <<>>]

\* _parse_exts on the parts the raw text splits into at blanks, commas and
\* semicolons: lower-cased, a leading dot added, '*' for no restriction
parse_exts(parts) ==
    LET low == {lower(parts[k]) : k \in 1..Len(parts)} \ {<<>>}
    IN  IF <<"*">> \in low THEN {}
        ELSE {IF x[1] = "." THEN x ELSE <<".">> \o x : x \in low}

\* lines 1044-1046: the three criteria as the filter loop uses them
parse_filter(raw) ==
    [exts |-> parse_exts(raw.exts), inc |-> lower(raw.inc), exc |-> lower(raw.exc)]

MutKeptOnAnyCriterion(p, flt) ==
    LET name_lower == lower(p.name)
    IN  \/ flt = NoFilter
        \/ (flt.exts # {} /\ lower(PathSuffix(p.name)) \in flt.exts)
        \/ (flt.inc # <<>> /\ Contains(flt.inc, name_lower))
        \/ (flt.exc # <<>> /\ ~Contains(flt.exc, name_lower))

\* lines 1055-1064: TRUE when the file is kept
Kept(p, flt) ==
    LET name_lower == lower(p.name)
    IN  /\ ~(flt.exts # {} /\ lower(PathSuffix(p.name)) \notin flt.exts)
        /\ ~(flt.inc # <<>> /\ ~Contains(flt.inc, name_lower))
        /\ ~(flt.exc # <<>> /\ Contains(flt.exc, name_lower))

\* a filter loop that keeps every file
MutFilterKeepsAll(files, flt) == files

FilterFiles(files, flt) == SelectSeq(files, LAMBDA p : Kept(p, flt))

\* ------------------------------------------------------------ plan builder
NoKeys == [d \in Dirs |-> [loaded |-> FALSE, keys |-> {}]]   \* existing_keys_by_dir = {}

PlanItem(p) ==
    [dir |-> p.dir, original_name |-> p.name, base_name |-> NoName, final_name |-> NoName,
     status |-> "rename", note_code |-> None, conflict_index |-> 0, error |-> None]

\* the building state of _build_rename_plan step 3 (lines 1071-1073)
PlanState0(scan_errors) ==
    [items |-> <<>>, existing |-> NoKeys, reserved |-> [d \in Dirs |-> {}],
     scan_errors |-> scan_errors]

\* lines 1134-1137: reserve + simulate apply
MutSimulateNoReserve(existing_keys, reserved_keys, original, final_name) ==
    [reserved |-> reserved_keys,
     existing |-> existing_keys \ {name_key(original)}]

simulate_apply(existing_keys, reserved_keys, original, final_name) ==
    [reserved |-> reserved_keys \cup {name_key(final_name)},
     existing |-> (existing_keys \ {name_key(original)}) \cup {name_key(final_name)}]

\* one set of keys for all directories
MutKeysOfEveryDir(by_dir, parent) == UNION {by_dir[d] : d \in DOMAIN by_dir}

\* line 1113: reserved_keys_by_dir.setdefault(parent, set())
keys_of_dir(by_dir, parent) == by_dir[parent]

\* one iteration of the loop at line 1075 (after the cancel check), for file p
plan_item(st, p, date_source, F) ==
    LET original == p.name
        parent   == p.dir
        item     == PlanItem(p)
        dp       == get_date_prefix(F, parent, original, date_source)
        base_name == dp.date \o <<"_">> \o original
        fresh    == ~st.existing[parent].loaded
        failed   == fresh /\ parent \in unlistable
        existing_keys == IF ~fresh THEN st.existing[parent].keys
                         ELSE IF failed THEN {}
                         ELSE {name_key(n) : n \in listdir(F, parent)}
        errs     == IF failed THEN st.scan_errors \cup {parent} ELSE st.scan_errors
        reserved_keys == keys_of_dir(st.reserved, parent)
        r        == resolve_conflict_auto_index(base_name, existing_keys, reserved_keys)
        sim      == simulate_apply(existing_keys, reserved_keys, original, r.name)
    IN  IF has_any_date_prefix(original)
        THEN [st EXCEPT !.items = Append(@, [item EXCEPT !.status = "skip_prefix",
                                                          !.final_name = original])]
        ELSE IF dp.date = NoName
        THEN [st EXCEPT !.items = Append(@, [item EXCEPT !.status = "error",
                                                          !.final_name = original,
                                                          !.error = "stat() failed"])]
        ELSE IF ~r.ok
        THEN [st EXCEPT !.items = Append(@, [item EXCEPT !.status = "error",
                                                          !.base_name = base_name,
                                                          !.note_code = dp.note,
                                                          !.final_name = original,
                                                          !.error = "Too many conflicts"]),
                        !.existing[parent] = [loaded |-> TRUE, keys |-> existing_keys],
                        !.scan_errors = errs]
        ELSE [st EXCEPT !.items = Append(@, [item EXCEPT !.base_name = base_name,
                                                          !.note_code = dp.note,
                                                          !.final_name = r.name,
                                                          !.conflict_index = r.idx]),
                        !.existing[parent] = [loaded |-> TRUE, keys |-> sim.existing],
                        !.reserved[parent] = sim.reserved,
                        !.scan_errors = errs]

RECURSIVE PlanLoop(_, _, _, _)
PlanLoop(st, kept, date_source, F) ==
    IF kept = <<>> THEN st
    ELSE PlanLoop(plan_item(st, Head(kept), date_source, F), Tail(kept), date_source, F)

\* _build_rename_plan with no cancellation, the lister yielding `order`
build_rename_plan(F, target, opts, order) ==
    LET scan  == IF target.is_single_file
                 THEN [files |-> <<[dir |-> target.dir, name |-> target.name]>>, errors |-> {}]
                 ELSE iter_files_tolerant(order, target.dir, opts.include_subfolders)
        kept  == FilterFiles(scan.files, opts.filter)
        st    == PlanLoop(PlanState0(scan.errors), kept, opts.date_source, F)
    IN  [items |-> st.items, scanned |-> Len(scan.files), matched |-> Len(kept),
         filtered_out |-> Len(scan.files) - Len(kept), scan_errors |-> st.scan_errors,
         cancelled |-> FALSE]


\* -------------------------------------------------------------- history
HISTORY_MAX_ENTRIES == 30

\* str(path) and Path(str): the string is split at its last separator
ParsePath(str) ==
    LET seps == {k \in 1..Len(str) : str[k] = "/"}
        k    == CHOOSE j \in seps : \A m \in seps : m <= j
    IN  [dir |-> SubSeq(str, 1, k - 1), name |-> SubSeq(str, k + 1, Len(str))]

\* _load_history: the latest rows, oldest first
load_history(rows) ==
    IF Len(rows) > HISTORY_MAX_ENTRIES
    THEN SubSeq(rows, Len(rows) - HISTORY_MAX_ENTRIES + 1, Len(rows))
    ELSE rows

MutAppendKeepsOldest(rows, entry) ==
    LET all == Append(rows, entry)
    IN  IF Len(all) > HISTORY_MAX_ENTRIES THEN SubSeq(all, 1, HISTORY_MAX_ENTRIES) ELSE all

\* _append_history_entry: INSERT, then delete the oldest rows over the cap
append_history_entry(rows, entry) ==
    LET all == Append(rows, entry)
    IN  IF Len(all) > HISTORY_MAX_ENTRIES
        THEN SubSeq(all, Len(all) - HISTORY_MAX_ENTRIES + 1, Len(all))
        ELSE all

MutFindFirstUndoable(items) ==
    LET ok == {i \in 1..Len(items) : items[i].status = "done" /\ items[i].ops # <<>>}
    IN  IF ok = {} THEN 0 ELSE CHOOSE i \in ok : \A j \in ok : i <= j

\* _find_last_undoable: index of the last entry that is done and has ops, 0 for (None, None)
find_last_undoable(items) ==
    LET ok == {i \in 1..Len(items) : items[i].status = "done" /\ items[i].ops # <<>>}
    IN  IF ok = {} THEN 0 ELSE CHOOSE i \in ok : \A j \in ok : j <= i

MutMarkKeepsDone(rows, entry_id, summary) ==
    [i \in 1..Len(rows) |->
        IF rows[i].id = entry_id
        THEN [rows[i] EXCEPT !.undo_summary = summary]
        ELSE rows[i]]

MutMarkUnlessCancelled(rows, entry_id, summary) ==
    [i \in 1..Len(rows) |->
        IF rows[i].id = entry_id /\ ~summary.cancelled
        THEN [rows[i] EXCEPT !.status = "undone", !.undo_summary = summary]
        ELSE rows[i]]

\* _mark_history_undone
mark_history_undone(rows, entry_id, summary) ==
    [i \in 1..Len(rows) |->
        IF rows[i].id = entry_id
        THEN [rows[i] EXCEPT !.status = "undone", !.undo_summary = summary]
        ELSE rows[i]]

\* -------------------------------------------------------- worker and UI
RenameResult == [renamed |-> 0, skipped |-> 0, filtered |-> 0, conflicts |-> 0,
                 errors |-> 0, total |-> 0, cancelled |-> FALSE]

UndoResult == [restored |-> 0, skipped |-> 0, errors |-> 0, total |-> 0,
               cancelled |-> FALSE, no_history |-> FALSE]

NoPlan == [items |-> <<>>, scanned |-> 0, matched |-> 0, filtered_out |-> 0,
           scan_errors |-> {}, cancelled |-> FALSE]

NoSummary == [restored |-> 0, skipped |-> 0, errors |-> 0, cancelled |-> FALSE, total |-> 0]

IdleWorker ==
    [pc |-> "idle", dry_run |-> FALSE, files |-> <<>>, kept |-> <<>>, k |-> 0,
     st |-> PlanState0({}), plan |-> NoPlan, i |-> 0, result |-> RenameResult,
     ops |-> <<>>, entry_id |-> 0, uops |-> <<>>, ures |-> UndoResult]

\* What an observer of the latest operation has seen (a history variable: no
\* action reads it to decide what the program does).
\*   kind, dry_run   the latest operation started: "run" or "undo"
\*   fs0, hist0      the disk and the history store when the latest run started
\*   replan          the latest run started right after a complete real run in
\*                   which every rename item succeeded
\*   plan, planned   the plan _build_rename_plan returned to the latest run
\*   attempts        the _safe_rename calls of the latest run, in order
\*   run_entry       id of the history entry the latest run appended, 0 if none
\*   undo_entry      id of the entry of the latest undo since that run, 0 if none
\*   undo_trace      positions in ops the latest undo went through, in order
\*   undo_log        what the latest undo met and did at each of those ops
\*   undone          ids of the entries whose undo has finished
\*   cancel_k        files the plan loop had handled when the cancel signal was
\*                   set during the planning of the latest run, -1 if it was not
NoObs ==
    [kind |-> "none", dry_run |-> FALSE, fs0 |-> {}, hist0 |-> <<>>, replan |-> FALSE,
     plan |-> NoPlan, planned |-> FALSE, attempts |-> <<>>, run_entry |-> 0,
     undo_entry |-> 0, undo_trace |-> <<>>, undo_log |-> <<>>, undone |-> {},
     cancel_k |-> -1]

RenameItems(items) == {k \in 1..Len(items) : items[k].status = "rename"}

\* the run observed was real, ran to its end, and every rename item was renamed
CompleteRealRun(o) ==
    /\ o.kind = "run" /\ ~o.dry_run
    /\ o.planned /\ ~o.plan.cancelled
    /\ Len(o.attempts) = Cardinality(RenameItems(o.plan.items))
    /\ \A k \in 1..Len(o.attempts) : o.attempts[k].ok

\* info: the information dialog shown since, if any
NoDone == [type |-> "none", run |-> RenameResult, undo |-> UndoResult, info |-> None]

MutNeverInFlight(flag) == FALSE

\* lines 3028 and 3257: a start or undo request returns at once while
\* self.processing is set
run_in_flight(flag) == flag

MutEventNotCleared(event) == event

\* lines 3262 and 3061: self._cancel_event.clear()
event_clear(event) == FALSE

MutCancelAlways(flag, event) == TRUE

\* lines 3289-3290: if self.processing: self._cancel_event.set()
cancel_request(flag, event) == IF flag THEN TRUE ELSE event

\* RenameApp._start_processing
StartProcessing ==
    /\ ~run_in_flight(processing)
    /\ started < MaxOps
    /\ \E dry_run \in BOOLEAN :
          /\ worker' = [IdleWorker EXCEPT !.pc = "scan", !.dry_run = dry_run]
          /\ obs' = [NoObs EXCEPT !.kind = "run", !.dry_run = dry_run, !.fs0 = fs,
                                  !.hist0 = history, !.undone = obs.undone,
                                  !.replan = (done.type = "done" /\ ~done.run.cancelled
                                              /\ CompleteRealRun(obs))]
    /\ cancel_event' = event_clear(cancel_event)
    /\ processing' = TRUE
    /\ started' = started + 1
    /\ done' = NoDone
    /\ UNCHANGED <<planning, os_nt, fs_ci, fs, locked, unlistable, ui, q, history, next_id>>

\* RenameApp._cancel_processing
CancelProcessing ==
    /\ cancel_event' = cancel_request(processing, cancel_event)
    /\ obs' = IF ~processing \/ cancel_event \/ worker.pc \notin {"scan", "build"} THEN obs
              ELSE [obs EXCEPT !.cancel_k = IF worker.pc = "build" THEN worker.k - 1 ELSE 0]
    /\ UNCHANGED <<planning, os_nt, fs_ci, fs, locked, unlistable, ui, started, processing, worker, q,
                   history, next_id, done>>

MutAfterPlanRunsCancelled(w, plan) ==
    IF plan.scanned = 0
    THEN [w EXCEPT !.pc = "finish", !.plan = plan, !.result.total = 0]
    ELSE IF plan.items = <<>>
    THEN [w EXCEPT !.pc = "finish", !.plan = plan, !.result.filtered = plan.filtered_out,
                   !.result.total = 0]
    ELSE [w EXCEPT !.pc = "exec", !.plan = plan, !.i = 1,
                   !.result.filtered = plan.filtered_out,
                   !.result.total = Len(plan.items)]

\* _worker_run lines 3391-3424: what the run does with the plan it got
AfterPlan(w, plan) ==
    IF plan.cancelled
    THEN [w EXCEPT !.pc = "finish", !.plan = plan, !.result.cancelled = TRUE,
                   !.result.total = 0]
    ELSE IF plan.scanned = 0
    THEN [w EXCEPT !.pc = "finish", !.plan = plan, !.result.total = 0]
    ELSE IF plan.matched = 0
    THEN [w EXCEPT !.pc = "finish", !.plan = plan, !.result.filtered = plan.filtered_out,
                   !.result.total = 0]
    ELSE [w EXCEPT !.pc = "exec", !.plan = plan, !.i = 1,
                   !.result.filtered = plan.filtered_out,
                   !.result.total = Len(plan.items)]

\* _build_rename_plan steps 1 and 2 (scan, filter).  The cancel checks of the
\* filter loop return the same plan at whichever file they fire.
WorkerScan ==
    /\ worker.pc = "scan"
    /\ \E order \in Perms(Found(fs, ui.dir, ui.include_subfolders)) :
          LET scan == IF ui.is_single_file
                      THEN [files |-> <<[dir |-> ui.dir, name |-> ui.name]>>, errors |-> {}]
                      ELSE iter_files_tolerant(order, ui.dir, ui.include_subfolders)
              filtering == ui.filter # NoFilter
              kept == FilterFiles(scan.files, ui.filter)
          IN  IF filtering /\ scan.files # <<>> /\ cancel_event
              THEN LET plan == [items |-> <<>>, scanned |-> Len(scan.files), matched |-> 0,
                                filtered_out |-> Len(scan.files),
                                scan_errors |-> scan.errors, cancelled |-> TRUE]
                   IN  /\ worker' = AfterPlan(worker, plan)
                       /\ obs' = [obs EXCEPT !.plan = plan, !.planned = TRUE]
              ELSE /\ worker' = [worker EXCEPT !.pc = "build", !.files = scan.files,
                                               !.kept = kept, !.k = 1,
                                               !.st = PlanState0(scan.errors)]
                   /\ obs' = obs
    /\ UNCHANGED <<planning, os_nt, fs_ci, fs, locked, unlistable, ui, started, processing, cancel_event,
                   q, history, next_id, done>>

MutCancelNotPolled(event) == FALSE

\* line 1076: if cancel_event and cancel_event.is_set()
plan_cancel_check(event) == event

\* _build_rename_plan step 3: one pass of the loop at line 1075, or its end
WorkerBuild ==
    /\ worker.pc = "build"
    /\ LET w == worker
           mk(cancelled) ==
               [items |-> w.st.items, scanned |-> Len(w.files), matched |-> Len(w.kept),
                filtered_out |-> Len(w.files) - Len(w.kept),
                scan_errors |-> w.st.scan_errors, cancelled |-> cancelled]
       IN  IF w.k > Len(w.kept)
           THEN /\ worker' = AfterPlan([w EXCEPT !.st = PlanState0({}), !.files = <<>>,
                                                 !.kept = <<>>, !.k = 0], mk(FALSE))
                /\ obs' = [obs EXCEPT !.plan = mk(FALSE), !.planned = TRUE]
           ELSE IF plan_cancel_check(cancel_event)
           THEN /\ worker' = AfterPlan([w EXCEPT !.st = PlanState0({}), !.files = <<>>,
                                                 !.kept = <<>>, !.k = 0], mk(TRUE))
                /\ obs' = [obs EXCEPT !.plan = mk(TRUE), !.planned = TRUE]
           ELSE /\ worker' = [w EXCEPT !.st = plan_item(w.st, w.kept[w.k], ui.date_source, fs),
                                       !.k = w.k + 1]
                /\ obs' = obs
    /\ UNCHANGED <<planning, os_nt, fs_ci, fs, locked, unlistable, ui, started, processing, cancel_event,
                   q, history, next_id, done>>


\* what the loop at line 3427 does next: leave when the items are exhausted
Advance(w) == IF w.i >= Len(w.plan.items) THEN [w EXCEPT !.pc = "finish", !.i = w.i + 1]
                                          ELSE [w EXCEPT !.i = w.i + 1]

MutExecRenameRecordsFailed(w, it) ==
    LET final_name == IF it.final_name # NoName THEN it.final_name ELSE it.original_name
        w1 == IF it.conflict_index > 0 THEN [w EXCEPT !.result.conflicts = @ + 1] ELSE w
        r  == safe_rename(fs, it.dir, it.original_name, final_name)
        op == [old |-> PathStr(it.dir, it.original_name), new |-> PathStr(it.dir, final_name)]
    IN  IF w.dry_run
        THEN [w |-> [w1 EXCEPT !.result.renamed = @ + 1], fs |-> fs, tried |-> FALSE]
        ELSE IF r.ok
        THEN [w |-> [w1 EXCEPT !.ops = Append(@, op), !.result.renamed = @ + 1],
              fs |-> r.fs, tried |-> TRUE]
        ELSE [w |-> [w1 EXCEPT !.ops = Append(@, op), !.result.errors = @ + 1],
              fs |-> fs, tried |-> TRUE]

MutExecRenameFailureCountedTwice(w, it) ==
    LET final_name == IF it.final_name # NoName THEN it.final_name ELSE it.original_name
        w1 == IF it.conflict_index > 0 THEN [w EXCEPT !.result.conflicts = @ + 1] ELSE w
        r  == safe_rename(fs, it.dir, it.original_name, final_name)
        op == [old |-> PathStr(it.dir, it.original_name), new |-> PathStr(it.dir, final_name)]
    IN  IF w.dry_run
        THEN [w |-> [w1 EXCEPT !.result.renamed = @ + 1], fs |-> fs, tried |-> FALSE]
        ELSE IF r.ok
        THEN [w |-> [w1 EXCEPT !.ops = Append(@, op), !.result.renamed = @ + 1],
              fs |-> r.fs, tried |-> TRUE]
        ELSE [w |-> [w1 EXCEPT !.result.renamed = @ + 1, !.result.errors = @ + 1],
              fs |-> fs, tried |-> TRUE]

\* lines 3449-3468: a rename item
ExecRename(w, it) ==
    LET final_name == IF it.final_name # NoName THEN it.final_name ELSE it.original_name
        w1 == IF it.conflict_index > 0 THEN [w EXCEPT !.result.conflicts = @ + 1] ELSE w
        r  == safe_rename(fs, it.dir, it.original_name, final_name)
        op == [old |-> PathStr(it.dir, it.original_name), new |-> PathStr(it.dir, final_name)]
    IN  IF w.dry_run
        THEN [w |-> [w1 EXCEPT !.result.renamed = @ + 1], fs |-> fs, tried |-> FALSE]
        ELSE IF r.ok
        THEN [w |-> [w1 EXCEPT !.ops = Append(@, op), !.result.renamed = @ + 1],
              fs |-> r.fs, tried |-> TRUE]
        ELSE [w |-> [w1 EXCEPT !.result.errors = @ + 1], fs |-> fs, tried |-> TRUE]

\* line 3428: if self._cancel_event.is_set()
exec_cancel_check(event) == event

\* _worker_run step 2: one pass of the loop at line 3427
WorkerExec ==
    /\ worker.pc = "exec"
    /\ LET it == worker.plan.items[worker.i]
           x  == ExecRename(worker, it)
       IN  IF exec_cancel_check(cancel_event)
           THEN /\ worker' = [worker EXCEPT !.pc = "finish", !.result.cancelled = TRUE]
                /\ UNCHANGED <<fs, obs>>
           ELSE IF it.status = "skip_prefix"
           THEN /\ worker' = Advance([worker EXCEPT !.result.skipped = @ + 1])
                /\ UNCHANGED <<fs, obs>>
           ELSE IF it.status = "error"
           THEN /\ worker' = Advance([worker EXCEPT !.result.errors = @ + 1])
                /\ UNCHANGED <<fs, obs>>
           ELSE /\ worker' = Advance(x.w)
                /\ fs' = x.fs
                /\ obs' = IF x.tried
                          THEN [obs EXCEPT !.attempts = Append(@,
                                   [item |-> worker.i, dir |-> it.dir,
                                    src |-> it.original_name, dst |-> it.final_name,
                                    dst_taken |-> exists(fs, it.dir, it.final_name),
                                    ok |-> safe_rename(fs, it.dir, it.original_name,
                                                       it.final_name).ok])]
                          ELSE obs
    /\ UNCHANGED <<planning, os_nt, fs_ci, locked, unlistable, ui, started, processing, cancel_event,
                   q, history, next_id, done>>

MutEntryStatusCancelled(id, ops, cancelled) ==
    [id |-> id, ops |-> ops, status |-> IF cancelled THEN "cancelled" ELSE "done",
     cancelled |-> cancelled, undo_summary |-> NoSummary]

\* the history entry of lines 3478-3494
HistoryEntry(id, ops, cancelled) ==
    [id |-> id, ops |-> ops, status |-> "done", cancelled |-> cancelled,
     undo_summary |-> NoSummary]

\* when the finally block of _worker_run persists the batch (line 3476)
MutPersistAlways(dry_run, ops) == ~dry_run

MutPersistDryRun(dry_run, ops) == ops # <<>> \/ dry_run

persist_history(dry_run, ops) == (~dry_run) /\ ops # <<>>

\* _worker_run, the finally block: persist the batch, deliver the result
WorkerFinish ==
    /\ worker.pc = "finish"
    /\ IF persist_history(worker.dry_run, worker.ops)
       THEN /\ history' = append_history_entry(history,
                              HistoryEntry(next_id, worker.ops, worker.result.cancelled))
            /\ next_id' = next_id + 1
            /\ obs' = [obs EXCEPT !.run_entry = next_id]
       ELSE UNCHANGED <<history, next_id, obs>>
    /\ q' = Append(q, [type |-> "done", run |-> worker.result, undo |-> UndoResult])
    /\ worker' = IdleWorker
    /\ UNCHANGED <<planning, os_nt, fs_ci, fs, locked, unlistable, ui, started, processing, cancel_event,
                   done>>

\* RenameApp._start_undo, the user confirming the dialog
StartUndo ==
    /\ ~run_in_flight(processing)
    /\ started < MaxOps
    /\ LET items == load_history(history)
           idx   == find_last_undoable(items)
       IN  /\ idx # 0
           /\ worker' = [IdleWorker EXCEPT !.pc = "undo", !.entry_id = items[idx].id,
                                           !.uops = items[idx].ops, !.i = 1,
                                           !.ures.total = Len(items[idx].ops)]
           /\ obs' = [obs EXCEPT !.kind = "undo", !.undo_entry = items[idx].id,
                                 !.undo_trace = <<>>, !.undo_log = <<>>]
    /\ cancel_event' = event_clear(cancel_event)
    /\ processing' = TRUE
    /\ started' = started + 1
    /\ done' = NoDone
    /\ UNCHANGED <<planning, os_nt, fs_ci, fs, locked, unlistable, ui, q, history, next_id>>

\* RenameApp._start_undo, the user declining the dialog: no effect
StartUndoNothing ==
    /\ ~run_in_flight(processing)
    /\ find_last_undoable(load_history(history)) # 0
    /\ UNCHANGED vars

\* RenameApp._start_undo with nothing to undo (lines 3034-3049): the
\* 'undo_no_history' information dialog, and nothing else
StartUndoNoHistory ==
    /\ ~run_in_flight(processing)
    /\ find_last_undoable(load_history(history)) = 0
    /\ done' = [done EXCEPT !.info = "undo_no_history"]
    /\ UNCHANGED <<planning, os_nt, fs_ci, fs, locked, unlistable, ui, started, processing, cancel_event,
                   worker, q, history, next_id, obs>>

\* the order in which _worker_undo walks ops: reversed(ops)
MutUndoForward(ops, idx) == idx

undo_position(ops, idx) == Len(ops) + 1 - idx

MutUndoMissingIsError(F, op) ==
    LET new_path == ParsePath(op.new)
        old_path == ParsePath(op.old)
        r == safe_rename(F, new_path.dir, new_path.name, old_path.name)
    IN  IF ~exists(F, new_path.dir, new_path.name) THEN [outcome |-> "error", fs |-> F]
        ELSE IF exists(F, old_path.dir, old_path.name) THEN [outcome |-> "skip_conflict", fs |-> F]
        ELSE IF r.ok THEN [outcome |-> "restored", fs |-> r.fs]
        ELSE [outcome |-> "error", fs |-> F]

MutUndoOverwrites(F, op) ==
    LET new_path == ParsePath(op.new)
        old_path == ParsePath(op.old)
        r == safe_rename(F, new_path.dir, new_path.name, old_path.name)
    IN  IF ~exists(F, new_path.dir, new_path.name) THEN [outcome |-> "skip_missing", fs |-> F]
        ELSE IF r.ok THEN [outcome |-> "restored", fs |-> r.fs]
        ELSE [outcome |-> "error", fs |-> F]

MutUndoFailureIsSkip(F, op) ==
    LET new_path == ParsePath(op.new)
        old_path == ParsePath(op.old)
        r == safe_rename(F, new_path.dir, new_path.name, old_path.name)
    IN  IF ~exists(F, new_path.dir, new_path.name) THEN [outcome |-> "skip_missing", fs |-> F]
        ELSE IF exists(F, old_path.dir, old_path.name) THEN [outcome |-> "skip_conflict", fs |-> F]
        ELSE IF r.ok THEN [outcome |-> "restored", fs |-> r.fs]
        ELSE [outcome |-> "skip_conflict", fs |-> F]

\* lines 3089-3113: what the undo loop does with one op
undo_op(F, op) ==
    LET new_path == ParsePath(op.new)
        old_path == ParsePath(op.old)
        r == safe_rename(F, new_path.dir, new_path.name, old_path.name)
    IN  IF ~exists(F, new_path.dir, new_path.name) THEN [outcome |-> "skip_missing", fs |-> F]
        ELSE IF exists(F, old_path.dir, old_path.name) THEN [outcome |-> "skip_conflict", fs |-> F]
        ELSE IF r.ok THEN [outcome |-> "restored", fs |-> r.fs]
        ELSE [outcome |-> "error", fs |-> F]

MutUndoIgnoresCancel(event) == FALSE

\* line 3084: if self._cancel_event.is_set()
undo_cancel_check(event) == event

MutUndoConflictUncounted(w, outcome) ==
    IF outcome = "restored" THEN [w EXCEPT !.ures.restored = @ + 1]
    ELSE IF outcome = "error" THEN [w EXCEPT !.ures.errors = @ + 1]
    ELSE IF outcome = "skip_missing" THEN [w EXCEPT !.ures.skipped = @ + 1]
    ELSE w

\* lines 3094, 3100, 3106, 3110: the counter that the outcome of one op adds to
undo_count(w, outcome) ==
    IF outcome = "restored" THEN [w EXCEPT !.ures.restored = @ + 1]
    ELSE IF outcome = "error" THEN [w EXCEPT !.ures.errors = @ + 1]
    ELSE [w EXCEPT !.ures.skipped = @ + 1]

\* _worker_undo: one pass of the loop at line 3083
WorkerUndo ==
    /\ worker.pc = "undo"
    /\ LET w   == worker
           pos == undo_position(w.uops, w.i)
           op  == w.uops[pos]
           u   == undo_op(fs, op)
           nxt(v) == IF v.i >= Len(v.uops) THEN [v EXCEPT !.pc = "undo_finish", !.i = v.i + 1]
                                           ELSE [v EXCEPT !.i = v.i + 1]
       IN  IF undo_cancel_check(cancel_event)
           THEN /\ worker' = [w EXCEPT !.pc = "undo_finish", !.ures.cancelled = TRUE]
                /\ UNCHANGED <<fs, obs>>
           ELSE /\ obs' = [obs EXCEPT !.undo_trace = Append(@, pos),
                                      !.undo_log = Append(@,
                                          [op |-> op,
                                           new_there |-> exists(fs, ParsePath(op.new).dir,
                                                                ParsePath(op.new).name),
                                           old_there |-> exists(fs, ParsePath(op.old).dir,
                                                                ParsePath(op.old).name),
                                           changed |-> u.fs # fs,
                                           lost |-> Cardinality(u.fs) < Cardinality(fs),
                                           outcome |-> u.outcome])]
                /\ fs' = u.fs
                /\ worker' = nxt(undo_count(w, u.outcome))
    /\ UNCHANGED <<planning, os_nt, fs_ci, locked, unlistable, ui, started, processing, cancel_event,
                   q, history, next_id, done>>

\* _worker_undo, the finally block: mark the entry undone, deliver the result
WorkerUndoFinish ==
    /\ worker.pc = "undo_finish"
    /\ history' = mark_history_undone(history, worker.entry_id,
                      [restored |-> worker.ures.restored, skipped |-> worker.ures.skipped,
                       errors |-> worker.ures.errors, cancelled |-> worker.ures.cancelled,
                       total |-> worker.ures.total])
    /\ q' = Append(q, [type |-> "undo_done", run |-> RenameResult, undo |-> worker.ures])
    /\ worker' = IdleWorker
    /\ obs' = [obs EXCEPT !.undone = @ \cup {worker.entry_id}]
    /\ UNCHANGED <<planning, os_nt, fs_ci, fs, locked, unlistable, ui, started, processing, cancel_event,
                   next_id, done>>

\* the selections and option settings of the user that are followed
ExcludeSz == [exts |-> {}, inc |-> <<>>, exc |-> <<"sz">>]

UiChoices ==
    {[dir |-> Root, name |-> NoName, is_single_file |-> FALSE, include_subfolders |-> sub,
      date_source |-> src, filter |-> NoFilter] :
        sub \in BOOLEAN, src \in {"mtime", "ctime", "exif"}}
    \cup
    {[dir |-> Root, name |-> NoName, is_single_file |-> FALSE, include_subfolders |-> FALSE,
      date_source |-> "ctime", filter |-> ExcludeSz]}
    \cup
    {[dir |-> Root, name |-> Universe[1].name, is_single_file |-> TRUE,
      include_subfolders |-> FALSE, date_source |-> src, filter |-> NoFilter] :
        src \in {"mtime", "ctime", "exif"}}

\* ------------------------------------------- conflict estimate and preview
\* lines 1808-1818: no request issued, nothing on display.  conflict_count -1
\* stands for None.  seen is a history variable: the results _drain_queue has
\* taken from the queue, each with the token it carried, the token current
\* then, and whether it was put on display.
NoView ==
    [last_conflicts |-> <<>>, conflict_count |-> -1, precheck_inflight |-> FALSE,
     preview_rows |-> <<>>, preview_inflight |-> FALSE, seen |-> <<>>]

PlanningIdle ==
    /\ precheck_token = 0
    /\ preview_token = 0
    /\ threads = {}
    /\ view = NoView

\* The user picks another date source.  Writing an option variable schedules
\* the estimate and the preview again (trace_add 'write', line 2561); the
\* widgets are disabled while a run is in flight (_set_processing_ui).
ChangeOptions ==
    /\ ~processing
    /\ \E src \in {"mtime", "ctime", "exif"} \ {ui.date_source} :
          ui' = [ui EXCEPT !.date_source = src]
    /\ UNCHANGED <<planning, os_nt, fs_ci, fs, locked, unlistable, started, processing,
                   cancel_event, worker, q, history, next_id, done, obs>>

\* RenameApp._run_precheck_async
RunPrecheckAsync ==
    /\ ~processing
    /\ precheck_token + preview_token < MaxRequests
    /\ precheck_token' = precheck_token + 1
    /\ threads' = threads \cup {[kind |-> "precheck", token |-> precheck_token + 1, args |-> ui]}
    /\ view' = [view EXCEPT !.precheck_inflight = TRUE]
    /\ UNCHANGED <<preview_token, os_nt, fs_ci, fs, locked, unlistable, ui, started, processing,
                   cancel_event, worker, q, history, next_id, done, obs>>

\* RenameApp._start_preview_async
StartPreviewAsync ==
    /\ ~processing
    /\ precheck_token + preview_token < MaxRequests
    /\ preview_token' = preview_token + 1
    /\ threads' = threads \cup {[kind |-> "preview", token |-> preview_token + 1, args |-> ui]}
    /\ view' = [view EXCEPT !.preview_inflight = TRUE]
    /\ UNCHANGED <<precheck_token, os_nt, fs_ci, fs, locked, unlistable, ui, started, processing,
                   cancel_event, worker, q, history, next_id, done, obs>>

\* lines 2664-2674: the conflicts of a plan
precheck_conflicts(items) ==
    LET hit == SelectSeq(items, LAMBDA it : /\ it.status = "rename"
                                            /\ it.conflict_index > 0
                                            /\ it.base_name # NoName
                                            /\ it.final_name # NoName)
    IN  [k \in 1..Len(hit) |-> [folder |-> hit[k].dir, original |-> hit[k].original_name,
                                base |-> hit[k].base_name, final |-> hit[k].final_name]]

\* lines 2749-2762: the preview rows of a plan (the summary text is left out)
preview_rows(items) ==
    [k \in 1..Len(items) |->
        LET it == items[k]
            final == IF it.final_name # NoName THEN it.final_name ELSE it.original_name
            conflict == it.conflict_index > 0
        IN  [original |-> it.original_name, final |-> final,
             changed |-> (it.status = "rename" /\ final # it.original_name),
             conflict |-> conflict, folder |-> it.dir,
             suffix |-> IF conflict THEN <<"_">> \o Format03(it.conflict_index) ELSE <<>>]]

\* RenameApp._precheck_worker: plan the snapshot it was given, post the conflicts
PrecheckWorker ==
    /\ \E th \in threads :
          /\ th.kind = "precheck"
          /\ \E order \in Perms(Found(fs, th.args.dir, th.args.include_subfolders)) :
                q' = Append(q, [type |-> "precheck", token |-> th.token,
                                conflicts |-> precheck_conflicts(
                                    build_rename_plan(fs, th.args, th.args, order).items)])
          /\ threads' = threads \ {th}
    /\ UNCHANGED <<precheck_token, preview_token, view, os_nt, fs_ci, fs, locked, unlistable, ui,
                   started, processing, cancel_event, worker, history, next_id, done, obs>>

\* RenameApp._preview_worker: plan the snapshot it was given, post the rows
PreviewWorker ==
    /\ \E th \in threads :
          /\ th.kind = "preview"
          /\ \E order \in Perms(Found(fs, th.args.dir, th.args.include_subfolders)) :
                q' = Append(q, [type |-> "preview", token |-> th.token,
                                rows |-> preview_rows(
                                    build_rename_plan(fs, th.args, th.args, order).items)])
          /\ threads' = threads \ {th}
    /\ UNCHANGED <<precheck_token, preview_token, view, os_nt, fs_ci, fs, locked, unlistable, ui,
                   started, processing, cancel_event, worker, history, next_id, done, obs>>

MutTokenAlwaysCurrent(token, current) == TRUE

\* lines 3315 and 3332: a result is used only if its token is the current one
token_is_current(token, current) == token = current

\* a loop that takes the events off the queue and does nothing with them
MutDrainDropsEvent(s, ev) == s

\* _drain_queue, one event of the loop at line 3298; s is what the loop has
\* made of the display, the result received and the processing flag so far
drain_event(s, ev) ==
    IF ev.type = "precheck"
    THEN LET used == token_is_current(ev.token, precheck_token)
             s1 == [s EXCEPT !.view.seen = Append(@, [kind |-> "precheck", token |-> ev.token,
                                                       latest |-> precheck_token,
                                                       used |-> used])]
         IN  IF ~used THEN s1
             ELSE [s1 EXCEPT !.view.last_conflicts = ev.conflicts,
                             !.view.conflict_count = Len(ev.conflicts),
                             !.view.precheck_inflight = FALSE]
    ELSE IF ev.type = "preview"
    THEN LET used == token_is_current(ev.token, preview_token)
             s1 == [s EXCEPT !.view.seen = Append(@, [kind |-> "preview", token |-> ev.token,
                                                       latest |-> preview_token,
                                                       used |-> used])]
         IN  IF ~used THEN s1
             ELSE [s1 EXCEPT !.view.preview_rows = ev.rows,
                             !.view.preview_inflight = FALSE]
    ELSE [s EXCEPT !.done = [NoDone EXCEPT !.type = ev.type, !.run = ev.run, !.undo = ev.undo],
                   !.processing = FALSE]

RECURSIVE drain_loop(_, _)
drain_loop(s, events) ==
    IF events = <<>> THEN s ELSE drain_loop(drain_event(s, Head(events)), Tail(events))

\* RenameApp._drain_queue: 'precheck' and 'preview' results go on display,
\* 'done' -> _on_processing_done, 'undo_done' -> _on_undo_done
DrainQueue ==
    /\ q # <<>>
    /\ LET s == drain_loop([view |-> view, done |-> done, processing |-> processing], q)
       IN  /\ view' = s.view
           /\ done' = s.done
           /\ processing' = s.processing
    /\ q' = <<>>
    /\ UNCHANGED <<precheck_token, preview_token, threads, os_nt, fs_ci, fs, locked, unlistable,
                   ui, started, cancel_event, worker, history, next_id, obs>>

\* ------------------------------------------------------------------ Init
\* the three platforms: Windows, Linux, macOS (POSIX on a case-insensitive volume)
Platforms == {<<TRUE, TRUE>>, <<FALSE, FALSE>>, <<FALSE, TRUE>>}

FileOf(i) == [dir |-> Universe[i].dir, name |-> Universe[i].name, id |-> i]

\* a directory never holds two names its file system takes for the same
ValidFs(F) ==
    \A f, g \in F : (f.dir = g.dir /\ FsKey(f.name) = FsKey(g.name)) => f = g

Init ==
    /\ \E pl \in Platforms : os_nt = pl[1] /\ fs_ci = pl[2]
    /\ \E P \in SUBSET Ids :
          /\ Cardinality(P) <= MaxFiles
          /\ fs = {FileOf(i) : i \in P}
          /\ locked \in SUBSET (P \cap {1})
    /\ ValidFs(fs)
    /\ (fs_ci /\ ~os_nt) => \A f \in fs : f.id # 2
    /\ ui \in UiChoices
    /\ unlistable \in {{}, {Root}, {Sub}}
    /\ ui.is_single_file => exists(fs, ui.dir, ui.name)
    /\ (Root \in unlistable) => ui.is_single_file
    /\ (Sub \in unlistable) => ui.include_subfolders
    /\ started = 0
    /\ processing = FALSE
    /\ cancel_event = FALSE
    /\ worker = IdleWorker
    /\ q = <<>>
    /\ history = <<>>
    /\ next_id = 1
    /\ done = NoDone
    /\ obs = NoObs
    /\ PlanningIdle

Next ==
    \/ StartProcessing
    \/ CancelProcessing
    \/ WorkerScan
    \/ WorkerBuild
    \/ WorkerExec
    \/ WorkerFinish
    \/ StartUndo
    \/ StartUndoNothing
    \/ StartUndoNoHistory
    \/ WorkerUndo
    \/ WorkerUndoFinish
    \/ DrainQueue

Spec == Init /\ [][Next]_vars

\* The worker is a thread of its own that runs until its finally block has put
\* the completion event (lines 3472-3499, 3114-3131); _start_processing and
\* _start_undo schedule _drain_queue with after() (lines 3286, 3073) and
\* _drain_queue schedules itself again while processing is set (line 3359).
WorkerStep ==
    \/ WorkerScan
    \/ WorkerBuild
    \/ WorkerExec
    \/ WorkerFinish
    \/ WorkerUndo
    \/ WorkerUndoFinish

\* A step of WorkerStep is possible exactly while the worker has not ended:
\* each of its actions is guarded by the worker's position alone and moves it.
WorkerRunning == worker.pc # "idle"

\* WF_vars(WorkerStep), with ENABLED <<WorkerStep>>_vars written as WorkerRunning
WorkerFair == []<>(~WorkerRunning) \/ []<><<WorkerStep>>_vars

SpecFair == Init /\ [][Next]_vars /\ WorkerFair /\ WF_vars(DrainQueue)

\* ------------------------------------------------- a store from earlier sessions
\* The history store outlives the process: the application starts on the rows
\* earlier sessions left, and on a disk that may have changed since (a renamed
\* file deleted, an original name taken again).
OpRoot == [old |-> PathStr(Root, Universe[1].name), new |-> PathStr(Root, Universe[3].name)]
OpSub  == [old |-> PathStr(Sub, Universe[6].name), new |-> PathStr(Sub, Universe[3].name)]

DoneEntry(id, ops) == HistoryEntry(id, ops, FALSE)

UndoneEntry(id, ops) ==
    [HistoryEntry(id, ops, FALSE) EXCEPT
        !.status = "undone",
        !.undo_summary = [restored |-> Len(ops), skipped |-> 0, errors |-> 0,
                          cancelled |-> FALSE, total |-> Len(ops)]]

\* n rows of batches undone long ago, ids 101..(100 + n)
OldRows(n) == [k \in 1..n |-> UndoneEntry(100 + k, <<OpRoot>>)]

RecentRows ==
    {<<>>,
     <<DoneEntry(201, <<OpRoot>>)>>,
     <<DoneEntry(201, <<OpSub, OpRoot>>)>>,
     <<DoneEntry(201, <<OpSub>>), UndoneEntry(202, <<OpRoot>>)>>,
     <<DoneEntry(201, <<OpSub>>), DoneEntry(202, <<OpRoot>>)>>,
     <<UndoneEntry(201, <<OpRoot>>)>>}

StoredHistories ==
    UNION {{OldRows(n) \o rows : n \in {0, HISTORY_MAX_ENTRIES - Len(rows)}} :
               rows \in RecentRows}
    \cup {<<DoneEntry(201, <<OpRoot>>)>> \o OldRows(HISTORY_MAX_ENTRIES - 1)}

\* the files the stored ops speak of: an original name (taken again), a renamed file
StoredFiles ==
    {[dir |-> Root, name |-> Universe[1].name, id |-> 1],
     [dir |-> Root, name |-> Universe[3].name, id |-> 3],
     [dir |-> Sub,  name |-> Universe[6].name, id |-> 6],
     [dir |-> Sub,  name |-> Universe[3].name, id |-> 4]}

InitStore ==
    /\ os_nt \in BOOLEAN
    /\ fs_ci = os_nt
    /\ fs \in SUBSET StoredFiles
    /\ locked \in SUBSET ({f.id : f \in fs} \cap {3})
    /\ unlistable = {}
    /\ ui = [dir |-> Root, name |-> NoName, is_single_file |-> FALSE,
             include_subfolders |-> TRUE, date_source |-> "mtime", filter |-> NoFilter]
    /\ started = 0
    /\ processing = FALSE
    /\ cancel_event = FALSE
    /\ worker = IdleWorker
    /\ q = <<>>
    /\ history \in StoredHistories
    /\ next_id = 1
    /\ done = NoDone
    /\ obs = [NoObs EXCEPT !.undone = {history[k].id : k \in {j \in 1..Len(history) :
                                                              history[j].status = "undone"}}]
    /\ PlanningIdle

SpecStore == InitStore /\ [][Next]_vars

\* the same with the worker thread and the queue polling kept running
SpecStoreFair == InitStore /\ [][Next]_vars /\ WorkerFair /\ WF_vars(DrainQueue)

\* ------------------------------------ the conflict estimate and the preview at work
\* A folder is selected; the user edits options, the estimate and the preview are
\* requested again and again, runs and undos take place in between.
InitPlanning ==
    /\ os_nt \in BOOLEAN
    /\ fs_ci = os_nt
    /\ fs \in {{FileOf(i) : i \in P} : P \in {{2, 3}, {1, 3}}}
    /\ locked = {}
    /\ unlistable = {}
    /\ ui \in {u \in UiChoices : ~u.is_single_file /\ ~u.include_subfolders
                                  /\ u.filter = NoFilter /\ u.date_source = "mtime"}
    /\ started = 0
    /\ processing = FALSE
    /\ cancel_event = FALSE
    /\ worker = IdleWorker
    /\ q = <<>>
    /\ history = <<>>
    /\ next_id = 1
    /\ done = NoDone
    /\ obs = NoObs
    /\ PlanningIdle

NextPlanning ==
    \/ ChangeOptions
    \/ RunPrecheckAsync
    \/ StartPreviewAsync
    \/ PrecheckWorker
    \/ PreviewWorker
    \/ DrainQueue

SpecPlanning == InitPlanning /\ [][NextPlanning]_vars

MutDrainOnlyWhileProcessing(flag, precheck_inflight, preview_inflight) == flag

\* line 3359: _drain_queue schedules itself again while a run is in flight or
\* an estimate or a preview is awaited
drain_again(flag, precheck_inflight, preview_inflight) ==
    flag \/ precheck_inflight \/ preview_inflight

DrainScheduled == drain_again(processing, view.precheck_inflight, view.preview_inflight)

\* A planning thread runs until it has put its result (lines 2658-2678,
\* 2742-2766).  A request schedules _drain_queue with after() (lines 2655,
\* 2740), and _drain_queue schedules itself again as long as line 3359 says so.
ThreadsFair == []<>(threads = {}) \/ []<><<PrecheckWorker \/ PreviewWorker>>_vars

SpecPlanningFair ==
    InitPlanning /\ [][NextPlanning]_vars /\ ThreadsFair /\ WF_vars(DrainScheduled /\ DrainQueue)

\* ------------------------------------------------- the plan loop in a crowded folder
\* A folder that holds 20240101_ss.t and its numbered variants _001 ... _n, next
\* to the two files still to be renamed; the filter "exclude _" keeps those two.
\* The run has listed and filtered the folder and stands before the plan loop;
\* since the listing, either of the two files may have been removed.
CrowdName(i) ==
    LET sp == splitext(Universe[3].name)
    IN  IF i = 0 THEN Universe[3].name ELSE sp.stem \o <<"_">> \o Format03(i) \o sp.suffix

CrowdFiles(n) == {[dir |-> Root, name |-> CrowdName(i), id |-> 1000 + i] : i \in 0..n}

ExcludeUnderscore == [exts |-> {}, inc |-> <<>>, exc |-> <<"_">>]

\* what _iter_files_tolerant returned for the folder: sorted by path
CrowdScan(n) ==
    [k \in 1..(n + 1) |-> [dir |-> Root, name |-> CrowdName(k - 1)]]
    \o <<[dir |-> Root, name |-> Universe[1].name], [dir |-> Root, name |-> Universe[2].name]>>

InitCrowded ==
    /\ os_nt \in BOOLEAN
    /\ fs_ci = os_nt
    /\ locked = {}
    /\ unlistable = {}
    /\ \E src \in {"mtime", "ctime", "exif"} :
          ui = [dir |-> Root, name |-> NoName, is_single_file |-> FALSE,
                include_subfolders |-> FALSE, date_source |-> src,
                filter |-> ExcludeUnderscore]
    /\ \E n \in {max_tries - 1, max_tries}, left \in SUBSET {1, 2}, dry_run \in BOOLEAN :
          /\ fs = CrowdFiles(n) \cup {FileOf(i) : i \in left}
          /\ worker = [IdleWorker EXCEPT !.pc = "build", !.dry_run = dry_run,
                                         !.files = CrowdScan(n),
                                         !.kept = FilterFiles(CrowdScan(n), ExcludeUnderscore),
                                         !.k = 1]
          /\ obs = [NoObs EXCEPT !.kind = "run", !.dry_run = dry_run, !.fs0 = fs]
    /\ started = 1
    /\ processing = TRUE
    /\ cancel_event = FALSE
    /\ q = <<>>
    /\ history = <<>>
    /\ next_id = 1
    /\ done = NoDone
    /\ PlanningIdle

NextCrowded ==
    \/ CancelProcessing
    \/ WorkerBuild
    \/ WorkerExec
    \/ WorkerFinish
    \/ DrainQueue

SpecCrowded == InitCrowded /\ [][NextCrowded]_vars

\* ------------------------------------------------------ the executor on a given plan
\* PlanItem.status is declared as rename / skip_prefix / skip_filter / error
\* (line 627).  _build_rename_plan gives an item one of three of them; here the
\* executor stands before a plan in which items of the fourth occur as well,
\* each the item of a file of the folder, its final name its original name.
SkipFilterItem(it) ==
    [it EXCEPT !.status = "skip_filter", !.final_name = it.original_name,
               !.base_name = NoName, !.conflict_index = 0, !.note_code = None,
               !.error = None]

InitExecutor ==
    /\ os_nt \in BOOLEAN
    /\ fs_ci = os_nt
    /\ fs \in {{FileOf(i) : i \in P} : P \in {{1, 3}, {1, 2}, {2, 3}}}
    /\ locked \in SUBSET ({f.id : f \in fs} \cap {1})
    /\ unlistable = {}
    /\ ui = [dir |-> Root, name |-> NoName, is_single_file |-> FALSE,
             include_subfolders |-> FALSE, date_source |-> "mtime", filter |-> NoFilter]
    /\ \E dry_run \in BOOLEAN, order \in Perms(Found(fs, Root, FALSE)) :
          \E built \in {build_rename_plan(fs, ui, ui, order)} :
             \E F \in SUBSET (1..Len(built.items)) :
                \E plan \in {[built EXCEPT !.items =
                                 [k \in 1..Len(built.items) |->
                                     IF k \in F THEN SkipFilterItem(built.items[k])
                                                ELSE built.items[k]]]} :
                   /\ worker = [IdleWorker EXCEPT !.pc = "exec", !.dry_run = dry_run,
                                                  !.plan = plan, !.i = 1,
                                                  !.result.filtered = plan.filtered_out,
                                                  !.result.total = Len(plan.items)]
                   /\ obs = [NoObs EXCEPT !.kind = "run", !.dry_run = dry_run, !.fs0 = fs,
                                          !.plan = plan, !.planned = TRUE]
    /\ started = 1
    /\ processing = TRUE
    /\ cancel_event = FALSE
    /\ q = <<>>
    /\ history = <<>>
    /\ next_id = 1
    /\ done = NoDone
    /\ PlanningIdle

NextExecutor ==
    \/ CancelProcessing
    \/ WorkerExec
    \/ WorkerFinish
    \/ DrainQueue

SpecExecutor == InitExecutor /\ [][NextExecutor]_vars

\* ------------------------------------------------------------ the filter on its own
\* A file name and the three filter texts are drawn, then the test of the
\* filter loop is applied to them.
FilterNames ==
    {<<"s", "s", ".", "t">>, <<"S", "S", ".", "T">>, <<"s", "s">>, <<".", "t">>,
     <<"s", "s", ".", "t", ".", "s">>, <<"sz", ".", "S">>, <<"t", ".">>,
     D1 \o <<"_", "s", ".", "t">>}

FilterExts ==
    {<<>>, <<<<"t">>>>, <<<<".", "T">>>>, <<<<"s">>, <<"t">>>>, <<<<"t">>, <<"*">>>>, <<<<"d">>>>}

FilterTexts == {<<>>, <<"s">>, <<"S", "S">>, <<"_">>, <<".", "t">>}

InitFilter ==
    /\ os_nt \in BOOLEAN
    /\ fs_ci = os_nt
    /\ fs = {} /\ locked = {} /\ unlistable = {}
    /\ ui \in {u \in UiChoices : u.is_single_file /\ u.date_source = "mtime"}
    /\ started = 0 /\ processing = FALSE /\ cancel_event = FALSE
    /\ q = <<>> /\ history = <<>> /\ next_id = 1 /\ done = NoDone /\ obs = NoObs
    /\ PlanningIdle
    /\ \E name \in FilterNames, exts \in FilterExts, inc \in FilterTexts, exc \in FilterTexts :
          worker = [pc |-> "filter", p |-> [dir |-> Root, name |-> name],
                    raw |-> [exts |-> exts, inc |-> inc, exc |-> exc], kept |-> FALSE]

\* one pass of the filter loop (lines 1051-1064) for the file p
FilterCall ==
    /\ worker.pc = "filter"
    /\ worker' = [worker EXCEPT !.pc = "filtered",
                                !.kept = Kept(worker.p, parse_filter(worker.raw))]
    /\ UNCHANGED <<planning, os_nt, fs_ci, fs, locked, unlistable, ui, started, processing,
                   cancel_event, q, history, next_id, done, obs>>

NextFilter == FilterCall

SpecFilter == InitFilter /\ [][NextFilter]_vars

\* ------------------------------------------------------- a folder of media files
\* Runs with the capture-time date source over a folder that holds photos and
\* videos for which the metadata readers succeed, find nothing, or are not
\* available.
MediaCandidates == {FileOf(1), FileOf(2)} \cup {MediaFile(i) : i \in MediaIds}

InitMedia ==
    /\ os_nt \in BOOLEAN
    /\ fs_ci = os_nt
    /\ \E P \in SUBSET MediaCandidates :
          /\ Cardinality(P) \in 1..2
          /\ fs = P
    /\ ValidFs(fs)
    /\ locked = {}
    /\ unlistable = {}
    /\ ui \in {u \in UiChoices : u.date_source = "exif" /\ ~u.include_subfolders}
    /\ ui.is_single_file => exists(fs, ui.dir, ui.name)
    /\ started = 0
    /\ processing = FALSE
    /\ cancel_event = FALSE
    /\ worker = IdleWorker
    /\ q = <<>>
    /\ history = <<>>
    /\ next_id = 1
    /\ done = NoDone
    /\ obs = NoObs
    /\ PlanningIdle

NextMedia ==
    \/ StartProcessing
    \/ CancelProcessing
    \/ WorkerScan
    \/ WorkerBuild
    \/ WorkerExec
    \/ WorkerFinish
    \/ DrainQueue

SpecMedia == InitMedia /\ [][NextMedia]_vars

\* ================================================================ properties
\* the latest operation is a run whose result the worker has handed over
RunFinished == obs.kind = "run" /\ worker.pc = "idle"

\* the latest operation is an undo whose result the worker has handed over
UndoFinished == obs.kind = "undo" /\ worker.pc = "idle"

\* the renames of the latest run that succeeded, as (old path, new path)
AppliedOps ==
    LET ok == SelectSeq(obs.attempts, LAMBDA a : a.ok)
    IN  [k \in 1..Len(ok) |-> [old |-> PathStr(ok[k].dir, ok[k].src),
                               new |-> PathStr(ok[k].dir, ok[k].dst)]]

\* ---------------------------------------------------------------------- C1
\* C1: executing a plan in order never renames a file onto a name that exists in
\* its directory at that moment.
C1_NoRenameOntoExisting ==
    \A k \in 1..Len(obs.attempts) : ~(obs.attempts[k].ok /\ obs.attempts[k].dst_taken)

\* ---------------------------------------------------------------------- C2
\* C2: after a real run with N successful renames, undoing its entry to the end
\* puts every renamed file back: the disk is as before the run, restored = N,
\* skipped = 0 and errors = 0.
C2_UndoRestoresTheRun ==
    (UndoFinished /\ obs.run_entry # 0 /\ obs.undo_entry = obs.run_entry
       /\ done.type = "undo_done" /\ ~done.undo.cancelled)
    => /\ fs = obs.fs0
       /\ done.undo.restored = Len(AppliedOps)
       /\ done.undo.skipped = 0
       /\ done.undo.errors = 0

\* ---------------------------------------------------------------------- C3
\* what the claim compares in two plans: the items in order, each with its file,
\* status, final name and conflict index
PlanNames(items) ==
    [k \in 1..Len(items) |-> [dir |-> items[k].dir, original_name |-> items[k].original_name,
                              status |-> items[k].status, final_name |-> items[k].final_name,
                              conflict_index |-> items[k].conflict_index]]

\* C3: for a fixed disk, target and options the plan is the same whatever order
\* the directory lister returns the entries in.
C3_PlanIndependentOfListerOrder ==
    (obs.planned /\ ~obs.plan.cancelled)
    => \A order \in Perms(Found(obs.fs0, ui.dir, ui.include_subfolders)) :
          PlanNames(build_rename_plan(obs.fs0, ui, ui, order).items) = PlanNames(obs.plan.items)

\* ---------------------------------------------------------------------- C4
\* The resolver on its own: a call frame is drawn, then the function is applied.
ResolveBases ==
    {D1 \o <<"_", "s", "s", ".", "t">>, D1 \o <<"_", "S", "S", ".", "t">>,
     D1 \o <<"_", "sz", ".", "t">>, D1 \o <<"_", "s", "s">>}

ResolveNames ==
    {D1 \o <<"_", "s", "s", ".", "t">>, D1 \o <<"_", "s", "s", "_", "0", "0", "1", ".", "t">>,
     D1 \o <<"_", "s", "s", "_", "0", "0", "2", ".", "t">>, D1 \o <<"_", "s", "s">>,
     D1 \o <<"_", "s", "s", "_", "0", "0", "1">>,
     D1 \o <<"_", "S", "S", "_", "0", "0", "1", ".", "t">>}

NoResolved == [ok |-> FALSE, name |-> NoName, idx |-> 0]

InitResolve ==
    /\ os_nt \in BOOLEAN
    /\ fs_ci = os_nt
    /\ fs = {} /\ locked = {} /\ unlistable = {}
    /\ ui \in {u \in UiChoices : u.is_single_file /\ u.date_source = "mtime"}
    /\ started = 0 /\ processing = FALSE /\ cancel_event = FALSE
    /\ q = <<>> /\ history = <<>> /\ next_id = 1 /\ done = NoDone /\ obs = NoObs
    /\ PlanningIdle
    /\ \E base_name \in ResolveBases, E \in SUBSET ResolveNames, R \in SUBSET ResolveNames :
          worker = [pc |-> "resolve", base_name |-> base_name,
                    existing_keys |-> {name_key(n) : n \in E},
                    reserved_keys |-> {name_key(n) : n \in R},
                    out |-> NoResolved]

\* one call of _resolve_conflict_auto_index(base_name, existing_names, reserved_names)
ResolveCall ==
    /\ worker.pc = "resolve"
    /\ worker' = [worker EXCEPT !.pc = "resolved",
                                !.out = resolve_conflict_auto_index(worker.base_name,
                                            worker.existing_keys, worker.reserved_keys)]
    /\ UNCHANGED <<planning, os_nt, fs_ci, fs, locked, unlistable, ui, started, processing, cancel_event,
                   q, history, next_id, done, obs>>

NextResolve == ResolveCall

SpecResolve == InitResolve /\ [][NextResolve]_vars

\* stem_NNN.ext for index i, NNN the index in three digits
Candidate(base_name, i) ==
    LET sp == splitext(base_name)
        d(n) == Digits[n + 1]
    IN  sp.stem \o <<"_", d((i \div 100) % 10), d((i \div 10) % 10), d(i % 10)>> \o sp.suffix

TakenIn(name, existing_keys, reserved_keys) ==
    name_key(name) \in existing_keys \/ name_key(name) \in reserved_keys

ReportTaken ==
    {name_key(D1 \o <<"_", "s", "s", ".", "t">>),
     name_key(D1 \o <<"_", "s", "s", "_", "0", "0", "1", ".", "t">>)}

\* C4: the resolver returns (base_name, 0) exactly when base_name is in neither
\* set; otherwise it returns stem_NNN.ext for the smallest index in 1..999 whose
\* name is in neither set, with that index.  With the base name and its _001
\* name taken it returns the _002 name with index 2.
C4_ResolverSmallestFreeIndex ==
    worker.pc = "resolved" =>
        LET w == worker
            taken(n) == TakenIn(n, w.existing_keys, w.reserved_keys)
        IN  /\ w.out.ok
            /\ w.out.idx = 0 <=> ~taken(w.base_name)
            /\ w.out.idx = 0 => w.out.name = w.base_name
            /\ w.out.idx # 0 =>
                  /\ w.out.idx \in 1..999
                  /\ w.out.name = Candidate(w.base_name, w.out.idx)
                  /\ ~taken(w.out.name)
                  /\ \A j \in 1..(w.out.idx - 1) : taken(Candidate(w.base_name, j))
            /\ (w.base_name = D1 \o <<"_", "s", "s", ".", "t">>
                  /\ w.existing_keys \cup w.reserved_keys = ReportTaken)
               => /\ w.out.name = D1 \o <<"_", "s", "s", "_", "0", "0", "2", ".", "t">>
                  /\ w.out.idx = 2

C4_Witness ==
    /\ worker.pc = "resolved"
    /\ worker.base_name = D1 \o <<"_", "s", "s", ".", "t">>
    /\ worker.existing_keys = ReportTaken
    /\ worker.reserved_keys = {}
    /\ worker.out.idx = 2

\* ---------------------------------------------------------------------- C5
\* the names the directory held when the latest run started, as name keys
PreExistingKeys(dir) == {name_key(n) : n \in listdir(obs.fs0, dir)}

\* items i < j are the first two files of one directory that resolve to one base
\* name, a name that no file holds and no earlier item has taken
FirstTwoOnOneBase(items, i, j) ==
    /\ i < j
    /\ items[i].status = "rename" /\ items[j].status = "rename"
    /\ items[i].dir = items[j].dir
    /\ name_key(items[i].base_name) = name_key(items[j].base_name)
    /\ name_key(items[i].base_name) \notin PreExistingKeys(items[i].dir)
    /\ \A k \in 1..(j - 1) :
          (k # i /\ items[k].dir = items[i].dir)
          => /\ name_key(items[k].base_name) # name_key(items[i].base_name)
             /\ name_key(items[k].final_name) # name_key(items[i].base_name)

\* C5: of two files of one directory that resolve to the same free base name in
\* one planning pass, the first planned gets the base name with conflict index
\* 0 and the second gets the _001 name with conflict index 1.
C5_SecondGets001 ==
    obs.planned =>
        \A i, j \in 1..Len(obs.plan.items) :
            FirstTwoOnOneBase(obs.plan.items, i, j)
            => /\ obs.plan.items[i].final_name = obs.plan.items[i].base_name
               /\ obs.plan.items[i].conflict_index = 0
               /\ obs.plan.items[j].final_name = Candidate(obs.plan.items[j].base_name, 1)
               /\ obs.plan.items[j].conflict_index = 1

\* the _001 name of item j is taken: a file holds it, or an earlier item got it
FirstIndexTaken(items, j) ==
    \/ name_key(Candidate(items[j].base_name, 1)) \in PreExistingKeys(items[j].dir)
    \/ \E k \in 1..(j - 1) :
          /\ items[k].dir = items[j].dir
          /\ name_key(items[k].final_name) = name_key(Candidate(items[j].base_name, 1))

\* C5 as the code has it: the first planned gets the base name with conflict
\* index 0; the second gets stem_NNN.ext with its conflict index at least 1, and
\* that index is 1 exactly when the _001 name is not taken either.
C5_SecondGetsNextFree ==
    obs.planned =>
        \A i, j \in 1..Len(obs.plan.items) :
            FirstTwoOnOneBase(obs.plan.items, i, j)
            => /\ obs.plan.items[i].final_name = obs.plan.items[i].base_name
               /\ obs.plan.items[i].conflict_index = 0
               /\ obs.plan.items[j].conflict_index >= 1
               /\ obs.plan.items[j].final_name =
                      Candidate(obs.plan.items[j].base_name, obs.plan.items[j].conflict_index)
               /\ obs.plan.items[j].conflict_index = 1
                      <=> ~FirstIndexTaken(obs.plan.items, j)

C5_Witness ==
    /\ obs.planned
    /\ \E i, j \in 1..Len(obs.plan.items) :
          /\ FirstTwoOnOneBase(obs.plan.items, i, j)
          /\ obs.plan.items[j].conflict_index = 1

\* ---------------------------------------------------------------------- C6
\* eight ASCII digits and an underscore at the start of the name
StartsWithDate(name) ==
    /\ Len(name) >= 9
    /\ \A k \in 1..8 : name[k] \in {"0", "1", "2", "3", "4", "5", "6", "7", "8", "9"}
    /\ name[9] = "_"

\* C6: a file whose name starts with eight digits and an underscore is planned as
\* skip_prefix with its own name as final name, whatever the date source and the
\* disk, and the executor never renames it.
C6_PrefixedFilesLeftAlone ==
    /\ \A items \in {worker.st.items, worker.plan.items, obs.plan.items} :
          \A k \in 1..Len(items) :
              StartsWithDate(items[k].original_name)
              => /\ items[k].status = "skip_prefix"
                 /\ items[k].final_name = items[k].original_name
    /\ \A k \in 1..Len(obs.attempts) : ~StartsWithDate(obs.attempts[k].src)

C6_Witness ==
    /\ RunFinished /\ ~obs.dry_run /\ ~obs.plan.cancelled
    /\ \E k \in 1..Len(obs.plan.items) : obs.plan.items[k].status = "skip_prefix"
    /\ \E k \in 1..Len(obs.attempts) : obs.attempts[k].ok

\* ---------------------------------------------------------------------- C7
\* C7: planning again right after a real run in which every rename item
\* succeeded, same target and options, yields no item with status rename.
C7_ReplanHasNoRename ==
    (obs.replan /\ obs.planned) => RenameItems(obs.plan.items) = {}

C7_Witness ==
    /\ obs.replan /\ obs.planned /\ ~obs.plan.cancelled
    /\ Len(obs.hist0) = 1
    /\ Len(obs.hist0[1].ops) >= 2
    /\ Len(obs.plan.items) >= 2

\* ---------------------------------------------------------------------- C8
\* the result the latest finished operation handed over
LastEvent == IF q # <<>> THEN q[Len(q)] ELSE done

\* C8: a dry run leaves the disk as it was and appends nothing to the history;
\* run to its end it reports as renamed the number of rename items of its plan,
\* which is what a real run of that plan reports when no rename fails.
C8_DryRunNeutral ==
    /\ (obs.kind = "run" /\ obs.dry_run)
       => (fs = obs.fs0 /\ history = obs.hist0 /\ obs.attempts = <<>>)
    /\ (RunFinished /\ obs.planned /\ ~LastEvent.run.cancelled
          /\ (obs.dry_run \/ CompleteRealRun(obs)))
       => LastEvent.run.renamed = Cardinality(RenameItems(obs.plan.items))

C8_Witness ==
    /\ RunFinished /\ obs.dry_run /\ ~LastEvent.run.cancelled
    /\ LastEvent.run.renamed >= 2
    /\ fs # {}

\* ---------------------------------------------------------------------- C9
\* C9: a run appends a history entry exactly when it is not a dry run and at
\* least one rename succeeded; the entry has status done and its ops are the
\* renames that succeeded, in the order applied, also when the run was
\* cancelled or items failed.
C9_HistoryEntryIffApplied ==
    RunFinished =>
        IF ~obs.dry_run /\ AppliedOps # <<>>
        THEN /\ Len(history) = Len(obs.hist0) + 1
             /\ SubSeq(history, 1, Len(obs.hist0)) = obs.hist0
             /\ history[Len(history)].status = "done"
             /\ history[Len(history)].ops = AppliedOps
        ELSE history = obs.hist0

C9_Witness ==
    /\ RunFinished /\ ~obs.dry_run
    /\ LastEvent.run.cancelled
    /\ Len(AppliedOps) = 1
    /\ Cardinality(RenameItems(obs.plan.items)) >= 2
    /\ Len(history) = Len(obs.hist0) + 1

\* --------------------------------------------------------------------- C10
\* the ops of the entry the latest undo works on
UndoOps ==
    LET e == CHOOSE k \in 1..Len(history) : history[k].id = obs.undo_entry
    IN  history[e].ops

\* C10: undo goes through the ops of the entry in strictly reverse order, the
\* last applied rename first.
C10_UndoReverseOrder ==
    obs.kind = "undo" =>
        \A k \in 1..Len(obs.undo_trace) : obs.undo_trace[k] = Len(UndoOps) + 1 - k

C10_Witness ==
    /\ UndoFinished
    /\ Len(obs.undo_trace) >= 2
    /\ LastEvent.undo.restored >= 2

\* --------------------------------------------------------------------- C11
\* row k of the store can be undone: its status is done and it has ops
Eligible(k) == history[k].status = "done" /\ history[k].ops # <<>>

\* C11: undo takes the most recently appended entry that is done and has ops,
\* passing over newer entries that are undone or empty; when there is no such
\* entry it reports no history, touches no file and updates no history row.
C11_UndoSelectsLatestDone ==
    [][/\ (worker.pc = "idle" /\ worker'.pc = "undo")
          => \E k \in 1..Len(history) :
                /\ history[k].id = worker'.entry_id
                /\ worker'.uops = history[k].ops
                /\ Eligible(k)
                /\ \A j \in (k + 1)..Len(history) : ~Eligible(j)
       /\ (done'.info = "undo_no_history" /\ done.info # "undo_no_history")
          => /\ \A k \in 1..Len(history) : ~Eligible(k)
             /\ fs' = fs /\ history' = history /\ worker' = worker /\ ~processing'
       /\ (\A k \in 1..Len(history) : ~Eligible(k)) => worker'.pc # "undo"
      ]_vars

\* an undo at work on an entry that newer, undone entries follow
C11_Witness ==
    /\ worker.pc = "undo"
    /\ \E k \in 1..Len(history) :
          /\ history[k].id = worker.entry_id
          /\ k + 2 <= Len(history)
          /\ \A j \in (k + 1)..Len(history) : history[j].status = "undone"

\* --------------------------------------------------------------------- C12
\* C12: when the undo of an entry has finished the entry is undone and carries
\* the summary of that undo, and no later undo takes it again: an undo never
\* works on an entry whose undo has finished, and no such entry is eligible.
C12_UndoneNeverSelectedAgain ==
    /\ UndoFinished
       => \E k \in 1..Len(history) :
             /\ history[k].id = obs.undo_entry
             /\ history[k].status = "undone"
             /\ LastEvent.type = "undo_done"
                => history[k].undo_summary =
                       [restored |-> LastEvent.undo.restored, skipped |-> LastEvent.undo.skipped,
                        errors |-> LastEvent.undo.errors,
                        cancelled |-> LastEvent.undo.cancelled, total |-> LastEvent.undo.total]
    /\ worker.pc \in {"undo", "undo_finish"} => worker.entry_id \notin obs.undone
    /\ \A k \in 1..Len(history) : Eligible(k) => history[k].id \notin obs.undone

\* a second undo in one session: it works on the older batch, the newer one
\* having been undone by the first
C12_Witness ==
    /\ started = 2
    /\ worker.pc = "undo"
    /\ worker.entry_id = 201
    /\ 202 \in obs.undone

\* --------------------------------------------------------------------- C13
\* C13: every entry of the store is done or undone; an entry enters the store as
\* done, an entry that stays keeps its status or goes from done to undone, and
\* an undone entry never becomes done again.
C13_StatusDoneThenUndone ==
    /\ [](\A k \in 1..Len(history) : history[k].status \in {"done", "undone"})
    /\ [][\A n \in 1..Len(history') :
             LET was == {k \in 1..Len(history) : history[k].id = history'[n].id}
             IN  IF was = {}
                 THEN history'[n].status = "done"
                 ELSE \A k \in was :
                         \/ history'[n].status = history[k].status
                         \/ history[k].status = "done" /\ history'[n].status = "undone"
         ]_vars

\* an entry this session appended and then undid, next to an older one still done
C13_Witness ==
    /\ \E k \in 1..Len(history) : history[k].id = 1 /\ history[k].status = "undone"
    /\ \E k \in 1..Len(history) : history[k].id = 201 /\ history[k].status = "done"

\* --------------------------------------------------------------------- C14
\* the counters of the latest undo, while it runs and once it has finished
UndoCounters == IF worker.pc \in {"undo", "undo_finish"} THEN worker.ures ELSE LastEvent.undo

UndoCountersKnown == worker.pc \in {"undo", "undo_finish"} \/ LastEvent.type = "undo_done"

OutcomeCount(outcomes) ==
    Cardinality({k \in 1..Len(obs.undo_log) : obs.undo_log[k].outcome \in outcomes})

\* C14: an op of an undo whose new path is gone is a skip, not an error, and
\* changes nothing on disk; every other op of the batch is still gone through,
\* and its outcome is what its own paths call for.
C14_MissingNewPathSkipped ==
    obs.kind = "undo" =>
        /\ \A k \in 1..Len(obs.undo_log) :
              LET e == obs.undo_log[k]
              IN  /\ ~e.new_there => (e.outcome = "skip_missing" /\ ~e.changed)
                  /\ (e.new_there /\ e.old_there) => e.outcome = "skip_conflict"
                  /\ (e.new_there /\ ~e.old_there) => e.outcome \in {"restored", "error"}
                  /\ e.outcome = "restored" <=> e.changed
        /\ UndoCountersKnown =>
              /\ UndoCounters.skipped = OutcomeCount({"skip_missing", "skip_conflict"})
              /\ UndoCounters.errors = OutcomeCount({"error"})
              /\ UndoCounters.restored = OutcomeCount({"restored"})
        /\ (UndoFinished /\ LastEvent.type = "undo_done" /\ ~LastEvent.undo.cancelled)
           => Len(obs.undo_log) = Len(UndoOps)

\* a batch of two: the new path of the op undone first is gone, the other op is restored
C14_Witness ==
    /\ UndoFinished
    /\ Len(obs.undo_log) = 2
    /\ obs.undo_log[1].outcome = "skip_missing"
    /\ obs.undo_log[2].outcome = "restored"

\* --------------------------------------------------------------------- C15
\* C15: an op of an undo whose old path exists is a skip and no rename is done
\* for it; no op of an undo makes a file disappear.
C15_TakenOldPathSkipped ==
    obs.kind = "undo" =>
        \A k \in 1..Len(obs.undo_log) :
            LET e == obs.undo_log[k]
            IN  /\ e.old_there => (e.outcome \in {"skip_missing", "skip_conflict"} /\ ~e.changed)
                /\ ~e.lost

\* the renamed file and a file under the original name are both there
C15_Witness ==
    /\ UndoFinished
    /\ \E k \in 1..Len(obs.undo_log) :
          /\ obs.undo_log[k].new_there /\ obs.undo_log[k].old_there
          /\ obs.undo_log[k].outcome = "skip_conflict"
    /\ LastEvent.type = "undo_done" /\ LastEvent.undo.skipped >= 1

\* --------------------------------------------------------------------- C16
HistoryIds(rows) == {rows[k].id : k \in 1..Len(rows)}

\* C16: the store never holds more than 30 entries; an append to a store of
\* fewer than 30 adds the entry at the end, an append to a store of 30 drops
\* the oldest entry and no other, and nothing else adds or drops an entry.
\* (A run that appends is the step that sets run_entry to the id of its entry.)
C16_StoreKeepsLatestThirty ==
    /\ [](Len(history) <= 30)
    /\ [][IF obs'.run_entry = obs.run_entry \/ obs'.run_entry = 0
          THEN /\ Len(history') = Len(history)
               /\ \A k \in 1..Len(history) : history'[k].id = history[k].id
          ELSE /\ history'[Len(history')].id = obs'.run_entry
               /\ obs'.run_entry \notin HistoryIds(history)
               /\ IF Len(history) < 30
                  THEN history' = Append(history, history'[Len(history')])
                  ELSE history' = Append(Tail(history), history'[Len(history')])
         ]_vars

\* a store of 30 after an append to a store of 30: the oldest row (101) is gone
C16_Witness ==
    /\ Len(history) = 30
    /\ Len(obs.hist0) = 30
    /\ history[30].id = 1
    /\ history[1].id = 102
    /\ obs.hist0[1].id = 101

\* --------------------------------------------------------------------- C17
\* the cancel signal was set while the latest run was planning, and the plan is back
CancelledWhilePlanning == obs.kind = "run" /\ obs.planned /\ obs.cancel_k # -1

\* C17: when the cancel signal is set after K of the N candidate files have
\* been handled by plan building, the plan comes back with cancelled = true and
\* at most K items.
C17_CancelledPlanAtMostK ==
    (CancelledWhilePlanning /\ obs.cancel_k >= 1)
    => (obs.plan.cancelled /\ Len(obs.plan.items) <= obs.cancel_k)

\* C17 as the code has it: the signal is polled before each file.  Set with
\* files still to go (K < N), the plan comes back with cancelled = true and at
\* most K items; set when the last file has been handled (K = N), the plan
\* comes back complete, with cancelled = false.
C17_CancelledPlanWhenFilesLeft ==
    CancelledWhilePlanning =>
        /\ obs.plan.cancelled => Len(obs.plan.items) <= obs.cancel_k
        /\ obs.cancel_k < obs.plan.matched => obs.plan.cancelled
        /\ ~obs.plan.cancelled
           => (obs.cancel_k = obs.plan.matched /\ Len(obs.plan.items) = obs.plan.matched)

\* the signal set after 1 of at least 2 files
C17_Witness ==
    /\ CancelledWhilePlanning
    /\ obs.cancel_k = 1
    /\ obs.plan.matched >= 2
    /\ obs.plan.cancelled
    /\ Len(obs.plan.items) = 1

\* --------------------------------------------------------------------- C18
\* C18: a plan that came back cancelled is never executed: the run renames
\* nothing, appends no history entry, and ends with cancelled = true and total = 0.
C18_CancelledPlanNotExecuted ==
    (obs.kind = "run" /\ obs.planned /\ obs.plan.cancelled)
    => /\ worker.pc # "exec"
       /\ obs.attempts = <<>>
       /\ fs = obs.fs0
       /\ history = obs.hist0
       /\ worker.pc = "finish" => (worker.result.cancelled /\ worker.result.total = 0)
       /\ (RunFinished /\ LastEvent.type = "done")
          => /\ LastEvent.run.cancelled
             /\ LastEvent.run.total = 0
             /\ LastEvent.run.renamed = 0

\* a real run whose cancelled plan held a rename item
C18_Witness ==
    /\ RunFinished /\ ~obs.dry_run
    /\ obs.planned /\ obs.plan.cancelled
    /\ RenameItems(obs.plan.items) # {}
    /\ LastEvent.type = "done"

\* --------------------------------------------------------------------- C19
\* C19: the executor polls the cancel signal before each item; when it finds it
\* set it goes through no further item and sets cancelled = true, and the
\* renames it had applied stay as they are.
C19_ExecutorStopsOnCancel ==
    /\ [][(worker.pc = "exec" /\ cancel_event /\ worker' # worker)
          => /\ worker'.pc = "finish"
             /\ worker'.result = [worker.result EXCEPT !.cancelled = TRUE]
             /\ worker'.ops = worker.ops
             /\ fs' = fs
             /\ obs'.attempts = obs.attempts
         ]_vars
    /\ [](RunFinished
          => \A k \in 1..Len(obs.attempts) :
                obs.attempts[k].ok
                => /\ exists(fs, obs.attempts[k].dir, obs.attempts[k].dst)
                   /\ ~exists(fs, obs.attempts[k].dir, obs.attempts[k].src))

\* a real run cancelled between its first and its second rename
C19_Witness ==
    /\ RunFinished /\ ~obs.dry_run /\ ~obs.plan.cancelled
    /\ LastEvent.type = "done" /\ LastEvent.run.cancelled
    /\ LastEvent.run.renamed = 1
    /\ LastEvent.run.total >= 2
    /\ fs # obs.fs0

\* --------------------------------------------------------------------- C20
FailedAttempts == {k \in 1..Len(obs.attempts) : ~obs.attempts[k].ok}

ErrorItems(items) == {k \in 1..Len(items) : items[k].status = "error"}

\* C20: a rename that fails in a real run is counted in errors and the executor
\* goes on with the next items; the failed item adds no op, and the renames
\* applied before and after it are the ops recorded for undo.
C20_FailedRenameDoesNotAbort ==
    (obs.kind = "run" /\ ~obs.dry_run) =>
        /\ worker.pc \in {"exec", "finish"}
           => /\ worker.ops = AppliedOps
              /\ worker.result.renamed = Len(AppliedOps)
              /\ worker.result.errors >= Cardinality(FailedAttempts)
        /\ (RunFinished /\ LastEvent.type = "done" /\ ~LastEvent.run.cancelled /\ obs.planned)
           => /\ Len(obs.attempts) = Cardinality(RenameItems(obs.plan.items))
              /\ LastEvent.run.errors =
                     Cardinality(FailedAttempts) + Cardinality(ErrorItems(obs.plan.items))
              /\ LastEvent.run.renamed = Len(AppliedOps)
              /\ AppliedOps # <<>>
                 => (history # <<>> /\ history[Len(history)].ops = AppliedOps)

\* a rename that failed between two that succeeded
C20_Witness ==
    /\ RunFinished
    /\ Len(obs.attempts) = 3
    /\ obs.attempts[1].ok /\ ~obs.attempts[2].ok /\ obs.attempts[3].ok
    /\ Len(history) = 1 /\ Len(history[1].ops) = 2

\* --------------------------------------------------------------------- C21
PlanningKinds == {"precheck", "preview"}

CurrentToken(kind) == IF kind = "precheck" THEN precheck_token ELSE preview_token

\* the results of one kind that _drain_queue has taken from the queue, in order
Seen(kind) == SelectSeq(view.seen, LAMBDA r : r.kind = kind)

\* the tokens of the results of one kind that were put on display, in order
UsedTokens(kind) ==
    LET u == SelectSeq(Seen(kind), LAMBDA r : r.used)
    IN  [k \in 1..Len(u) |-> u[k].token]

\* the tokens of the requests of one kind that are computing or queued
ThreadTokens(kind) == {th.token : th \in {t \in threads : t.kind = kind}}

QueuedAt(kind) == {k \in 1..Len(q) : q[k].type = kind}

\* C21: the tokens of the requests of a kind are all different and none is
\* above the current one; a result taken from the queue is put on display
\* exactly when its token is the current one, so the tokens put on display only
\* grow and a result older than one already seen is never displayed.
C21_LastRequestWins ==
    \A kind \in PlanningKinds :
        /\ \A t1, t2 \in threads : (t1.kind = kind /\ t2.kind = kind /\ t1.token = t2.token)
                                   => t1 = t2
        /\ \A i, j \in QueuedAt(kind) : q[i].token = q[j].token => i = j
        /\ \A i \in QueuedAt(kind) : q[i].token \notin ThreadTokens(kind)
        /\ \A i \in QueuedAt(kind) : q[i].token \in 1..CurrentToken(kind)
        /\ ThreadTokens(kind) \subseteq 1..CurrentToken(kind)
        /\ \A k \in 1..Len(Seen(kind)) :
              /\ Seen(kind)[k].used <=> Seen(kind)[k].token = Seen(kind)[k].latest
              /\ Seen(kind)[k].used
                   => \A j \in 1..(k - 1) : Seen(kind)[j].token < Seen(kind)[k].token
        /\ \A i, j \in 1..Len(UsedTokens(kind)) :
              i < j => UsedTokens(kind)[i] < UsedTokens(kind)[j]
        /\ (UsedTokens(kind) = <<>> /\ kind = "precheck")
              => (view.last_conflicts = <<>> /\ view.conflict_count = -1)
        /\ (UsedTokens(kind) = <<>> /\ kind = "preview") => view.preview_rows = <<>>

\* the second estimate came back first and was displayed with its conflict; the
\* first one came back afterwards and was dropped
C21_Witness ==
    /\ Len(Seen("precheck")) = 2
    /\ Seen("precheck")[1].token = 2 /\ Seen("precheck")[1].used
    /\ Seen("precheck")[2].token = 1 /\ ~Seen("precheck")[2].used
    /\ view.conflict_count = 1
    /\ q = <<>>

\* --------------------------------------------------------------------- C22
\* a worker thread (executor or undo) exists and has not handed its result over
WorkerActive == worker.pc # "idle"

\* C22: a run or an undo is started only when no worker is active and no result
\* waits in the queue, and while a worker is active the processing flag is set;
\* so every start or undo request made during a run returns without starting
\* a worker, and the disk and the history store have one writer at a time.
C22_OneMutationPassAtATime ==
    /\ [](WorkerActive => processing)
    /\ []((\E k \in 1..Len(q) : q[k].type \in {"done", "undo_done"}) => processing)
    /\ [][(started' # started)
          => /\ ~WorkerActive /\ q = <<>> /\ ~processing
             /\ started' = started + 1
             /\ worker'.pc \in {"scan", "undo"}
         ]_vars
    /\ [][(WorkerActive /\ (fs' # fs \/ history' # history))
          => (worker' # worker /\ started' = started)]_vars

\* the second operation of a session, an undo, is at work on the disk while
\* the flag that turns start and undo requests down is set
C22_Witness ==
    /\ started = 2
    /\ obs.kind = "undo" /\ worker.pc = "undo" /\ worker.i = 2
    /\ fs # obs.fs0
    /\ run_in_flight(processing)

\* --------------------------------------------------------------------- C23
\* the name keys taken in folder dir once the first k items of the plan loop are
\* through: what the folder listed, each rename applied in turn
RECURSIVE KeysAfter(_, _, _)
KeysAfter(items, k, dir) ==
    IF k = 0
    THEN IF dir \in unlistable THEN {} ELSE {name_key(n) : n \in listdir(fs, dir)}
    ELSE LET prev == KeysAfter(items, k - 1, dir)
             it   == items[k]
         IN  IF it.dir = dir /\ it.status = "rename"
             THEN (prev \ {name_key(it.original_name)}) \cup {name_key(it.final_name)}
             ELSE prev

\* the keys of the final names the rename items among the first k took in dir
ReservedAfter(items, k, dir) ==
    {name_key(items[j].final_name) :
        j \in {i \in 1..k : items[i].dir = dir /\ items[i].status = "rename"}}

\* item k finds its base name and every numbered variant up to max_tries taken
Exhausted(items, k) ==
    LET it    == items[k]
        base  == get_date_prefix(fs, it.dir, it.original_name, ui.date_source).date
                     \o <<"_">> \o it.original_name
        taken == KeysAfter(items, k - 1, it.dir) \cup ReservedAfter(items, k - 1, it.dir)
    IN  /\ name_key(base) \in taken
        /\ \A i \in 1..max_tries : name_key(Candidate(base, i)) \in taken

\* stat() of the file of item k fails: the file is not there
StatFails(items, k) == ~exists(fs, items[k].dir, items[k].original_name)

\* C23: while the plan loop runs, the items built so far are the files kept so
\* far, one for one.  An item without date prefix whose file cannot be stat-ed,
\* or whose base name and numbered variants up to the maximum are all taken, is
\* an error item; an error item keeps its original name as final name, carries
\* an error text and reserves no name; the loop goes on to the next file.
C23_PlanningErrorsPerItem ==
    (worker.pc = "build") =>
        LET items == worker.st.items
        IN  /\ Len(items) = worker.k - 1
            /\ \A k \in 1..Len(items) :
                  LET it == items[k]
                      failing == /\ ~DATE_PREFIX_RE(it.original_name)
                                 /\ (StatFails(items, k) \/ Exhausted(items, k))
                  IN  /\ it.dir = worker.kept[k].dir
                      /\ it.original_name = worker.kept[k].name
                      /\ failing <=> it.status = "error"
                      /\ it.status = "error"
                           => (it.final_name = it.original_name /\ it.error # None)
            /\ \A dir \in Dirs :
                  /\ worker.st.reserved[dir] = ReservedAfter(items, Len(items), dir)
                  /\ worker.st.existing[dir].loaded
                       => worker.st.existing[dir].keys = KeysAfter(items, Len(items), dir)

\* the first file found all 1000 names taken and became an error item, the file
\* after it was planned as a rename
C23_Witness ==
    /\ worker.pc = "build"
    /\ Len(worker.st.items) = 2
    /\ worker.st.items[1].status = "error"
    /\ worker.st.items[1].error = "Too many conflicts"
    /\ worker.st.items[2].status = "rename"
    /\ worker.st.reserved[Root] = {name_key(worker.st.items[2].final_name)}

\* --------------------------------------------------------------------- C24
\* the items of the plan the executor leaves alone, by the statuses named
UntouchedItems(items, statuses) == {k \in 1..Len(items) : items[k].status \in statuses}

Extension(name) ==
    IF \E k \in 2..(Len(name) - 1) : name[k] = "." /\ \A j \in (k + 1)..Len(name) : name[j] # "."
    THEN LET k == CHOOSE d \in 2..(Len(name) - 1) :
                      name[d] = "." /\ \A j \in (d + 1)..Len(name) : name[j] # "."
         IN  SubSeq(name, k, Len(name))
    ELSE <<>>

\* the extensions a raw extension text asks for: its parts lower-cased, with a
\* leading dot; none when a part is '*'
AskedExts(parts) ==
    IF \E k \in 1..Len(parts) : parts[k] = <<"*">> THEN {}
    ELSE {IF parts[k][1] = "." THEN lower(parts[k]) ELSE <<".">> \o lower(parts[k]) :
             k \in 1..Len(parts)}

\* C25: the filter keeps a file exactly when its lower-cased extension is among
\* the extensions asked for (if any is), its lower-cased name contains the
\* lower-cased include text (if there is one) and does not contain the
\* lower-cased exclude text (if there is one); with no criterion every file is
\* kept.
C25_FilterIsConjunction ==
    (worker.pc = "filtered") =>
        LET name == worker.p.name
            raw  == worker.raw
            ext_ok == AskedExts(raw.exts) = {} \/ lower(Extension(name)) \in AskedExts(raw.exts)
            inc_ok == raw.inc = <<>> \/ Contains(lower(raw.inc), lower(name))
            exc_ok == raw.exc = <<>> \/ ~Contains(lower(raw.exc), lower(name))
        IN  /\ worker.kept <=> (ext_ok /\ inc_ok /\ exc_ok)
            /\ (AskedExts(raw.exts) = {} /\ raw.inc = <<>> /\ raw.exc = <<>>) => worker.kept

\* SS.T passes the extension t and the include text SS but holds the exclude
\* text .t: two criteria hold, the third does not, the file is dropped
C25_Witness ==
    /\ worker.pc = "filtered"
    /\ worker.p.name = <<"S", "S", ".", "T">>
    /\ worker.raw = [exts |-> <<<<"t">>>>, inc |-> <<"S", "S">>, exc |-> <<".", "t">>]
    /\ ~worker.kept

\* ------------------------------------------------------------------ C26
\* what the metadata readers can find for the file with attributes a under `name`
MetaDate(a, name) ==
    IF a.exif_date # NoName THEN a.exif_date
    ELSE IF lower(PathSuffix(name)) \notin VIDEO_META_SUFFIXES THEN NoName
    ELSE IF a.ffprobe_date # NoName THEN a.ffprobe_date
    ELSE a.hachoir_date

StartsWith(name, prefix) ==
    Len(name) >= Len(prefix) /\ SubSeq(name, 1, Len(prefix)) = prefix

\* C26: with the capture-time date source, while the plan loop runs, every file
\* handled so far has its item.  For a file without date prefix that is on
\* disk: where no reader finds a capture time, the item is a rename whose base
\* and final name begin with the modification date and whose note is not null;
\* where one is found, the item is a rename beginning with that date and the
\* note is null.  A file that is gone, for which every reader and stat() fail,
\* gets an error item and the loop goes on.
C26_ExifFallsBackToMtime ==
    (worker.pc = "build" /\ ui.date_source = "exif") =>
        /\ Len(worker.st.items) = worker.k - 1
        /\ \A k \in 1..Len(worker.st.items) :
              LET it  == worker.st.items[k]
                  hit == Lookup(fs, it.dir, it.original_name)
                  a   == attrs[(CHOOSE f \in hit : TRUE).id]
                  found == MetaDate(a, it.original_name)
                  date  == IF found = NoName THEN a.mtime ELSE found
              IN  ~DATE_PREFIX_RE(it.original_name) =>
                     IF hit = {}
                     THEN it.status = "error" /\ it.final_name = it.original_name
                     ELSE /\ it.status = "rename"
                          /\ it.base_name = date \o <<"_">> \o it.original_name
                          /\ StartsWith(it.final_name, date \o <<"_">>)
                          /\ (found = NoName) <=> (it.note_code # None)

\* a video for which ffprobe failed and hachoir found nothing was planned under
\* its modification date with the note of the video reader, next to a file whose
\* capture time was found
C26_Witness ==
    /\ worker.pc = "build"
    /\ ui.date_source = "exif"
    /\ \E j, k \in 1..Len(worker.st.items) :
          /\ worker.st.items[j].original_name = <<"t", ".", "m", "p", "4">>
          /\ worker.st.items[j].status = "rename"
          /\ worker.st.items[j].note_code = "video_meta_missing"
          /\ worker.st.items[j].base_name = D2 \o <<"_", "t", ".", "m", "p", "4">>
          /\ worker.st.items[k].status = "rename"
          /\ worker.st.items[k].note_code = None
          /\ StartsWith(worker.st.items[k].base_name, D1 \o <<"_">>)

\* ------------------------------------------------------------------ C27
\* the files of the run's disk in the directories the scan of the target can read
ReadableFiles ==
    {f \in obs.fs0 : /\ f.dir \notin unlistable
                     /\ \/ f.dir = ui.dir
                        \/ ui.include_subfolders /\ ui.dir = Root /\ f.dir = Sub}

\* the directories the planning of the target went to list and could not: in
\* folder mode those of the scan; in single-file mode the parent of the file,
\* which is listed once the file has been given a base name (line 1104)
UnreadableMet ==
    IF ui.is_single_file
    THEN {d \in unlistable : \E k \in 1..Len(obs.plan.items) :
                                /\ obs.plan.items[k].dir = d
                                /\ obs.plan.items[k].base_name # NoName}
    ELSE {d \in unlistable : d = ui.dir \/ (ui.include_subfolders /\ ui.dir = Root /\ d = Sub)}

ItemPaths(items) == {[dir |-> items[k].dir, name |-> items[k].original_name] : k \in 1..Len(items)}

\* C27: a plan that was built to its end names every directory that could not
\* be listed in scan_errors.  In folder mode it counts every file of the
\* readable directories as scanned and has one item for each of them that
\* passes the filter; in single-file mode the file is planned although its
\* parent directory cannot be listed.
C27_UnreadableDirRecordedScanGoesOn ==
    (obs.planned /\ ~obs.plan.cancelled) =>
        /\ UnreadableMet \subseteq obs.plan.scan_errors
        /\ ~ui.is_single_file =>
              /\ obs.plan.scanned = Cardinality(ReadableFiles)
              /\ ItemPaths(obs.plan.items) =
                    {[dir |-> f.dir, name |-> f.name] :
                        f \in {g \in ReadableFiles : Kept(g, ui.filter)}}
              /\ Len(obs.plan.items) = obs.plan.matched
        /\ ui.is_single_file =>
              ItemPaths(obs.plan.items) = {[dir |-> ui.dir, name |-> ui.name]}

\* the subfolder holds a file and cannot be listed: the plan records the
\* subfolder and has an item for each of the two files of the folder itself
C27_Witness ==
    /\ obs.planned
    /\ ~obs.plan.cancelled
    /\ ui.include_subfolders
    /\ unlistable = {Sub}
    /\ \E f \in obs.fs0 : f.dir = Sub
    /\ Sub \in obs.plan.scan_errors
    /\ Len(obs.plan.items) = 2
    /\ \A k \in 1..2 : obs.plan.items[k].dir = Root

\* ------------------------------------------------------------------ C28
\* the completion events waiting in the queue
Completions == {k \in 1..Len(q) : q[k].type \in {"done", "undo_done"}}

\* the completion event of the latest operation has been handled
Delivered ==
    /\ ~processing
    /\ worker = IdleWorker
    /\ q = <<>>
    /\ done.type = (IF obs.kind = "run" THEN "done" ELSE "undo_done")

\* between start and completion either the worker is at work and no completion
\* event exists, or the worker has ended and exactly one waits in the queue
OneCompletionPending ==
    processing =>
        /\ done.type = "none"
        /\ Cardinality(Completions) = (IF worker.pc = "idle" THEN 1 ELSE 0)

\* the result handed over is that of the operation: a run whose planning came
\* back cancelled reports cancelled and a total of 0, any other run the number
\* of plan items as total; an undo the number of operations of its entry
ResultOfTheOperation ==
    /\ (done.type = "done" /\ obs.planned) =>
          /\ obs.plan.cancelled => (done.run.cancelled /\ done.run.total = 0)
          /\ ~obs.plan.cancelled => done.run.total = Len(obs.plan.items)
    /\ done.type = "undo_done" =>
          \E k \in 1..Len(history) :
             /\ history[k].id = obs.undo_entry
             /\ history[k].status = "undone"
             /\ done.undo.total = Len(history[k].ops)
             /\ done.undo.restored + done.undo.skipped + done.undo.errors <= done.undo.total

\* C28: every started run and every started undo leads to the state in which
\* its completion event has been taken from the queue, the processing flag is
\* cleared and a start or an undo is accepted again; until then exactly one
\* completion event is on its way, and it carries the result of the operation.
C28_EveryOperationCompletes ==
    /\ [](OneCompletionPending /\ ResultOfTheOperation)
    /\ [](~processing => (worker = IdleWorker /\ Completions = {} /\ ~run_in_flight(processing)))
    /\ processing ~> Delivered

\* a run whose planning came back cancelled has handed over its result, after
\* an earlier operation had handed over its own
C28_Witness ==
    /\ Delivered
    /\ started = MaxOps
    /\ done.type = "done"
    /\ done.run.cancelled
    /\ obs.planned
    /\ obs.plan.cancelled

\* ------------------------------------------------------------------ C29
\* the result of the latest undo once its loop has ended: with the worker, in
\* the queue, or handed over
UndoEnded == obs.kind = "undo" /\ worker.pc # "undo"

UndoOutcome ==
    IF worker.pc = "undo_finish" THEN worker.ures
    ELSE IF q # <<>> THEN q[1].undo
    ELSE done.undo

RestoredSoFar ==
    {k \in 1..Len(obs.undo_log) : obs.undo_log[k].outcome = "restored"}

\* C29: an undo pass that starts with the cancel signal set attempts no
\* operation: it sets cancelled, leaves the loop and changes neither the disk
\* nor the counts.  An undo that ended cancelled has gone through fewer
\* operations than its entry holds, has counted just those, and every file it
\* restored is at its old path and no longer at its new one.
C29_UndoStopsOnCancel ==
    /\ [][(worker.pc = "undo" /\ cancel_event /\ worker' # worker) =>
             /\ worker'.pc = "undo_finish"
             /\ worker'.ures = [worker.ures EXCEPT !.cancelled = TRUE]
             /\ fs' = fs
             /\ obs'.undo_trace = obs.undo_trace]_vars
    /\ []((UndoEnded /\ UndoOutcome.cancelled) =>
             /\ Len(obs.undo_trace) < UndoOutcome.total
             /\ UndoOutcome.restored + UndoOutcome.skipped + UndoOutcome.errors
                   = Len(obs.undo_trace)
             /\ \A k \in RestoredSoFar :
                   LET op == obs.undo_log[k].op
                   IN  /\ exists(fs, ParsePath(op.old).dir, ParsePath(op.old).name)
                       /\ ~exists(fs, ParsePath(op.new).dir, ParsePath(op.new).name))

\* an undo of two or more operations was cancelled after it had restored a file
C29_Witness ==
    /\ UndoEnded
    /\ worker.pc = "undo_finish"
    /\ worker.ures.cancelled
    /\ worker.ures.total >= 2
    /\ worker.ures.restored >= 1
    /\ RestoredSoFar # {}

\* ------------------------------------------------------------------ C30
\* the counts of the latest undo as they stand
UndoCounts == IF worker.pc = "undo" THEN worker.ures ELSE UndoOutcome

\* what the undo met at the k-th operation it went through: the reverse rename
\* was called (the new path was there, the old one free) and the disk did not
\* change; the operation was passed over without a call; the rename took place
RenameFailedAt(k) ==
    obs.undo_log[k].new_there /\ ~obs.undo_log[k].old_there /\ ~obs.undo_log[k].changed

PassedOverAt(k) == ~obs.undo_log[k].new_there \/ obs.undo_log[k].old_there

RenamedBackAt(k) ==
    obs.undo_log[k].new_there /\ ~obs.undo_log[k].old_there /\ obs.undo_log[k].changed

\* C30: throughout an undo, errors counts the operations whose reverse rename
\* was called and failed, skipped those passed over without a call, restored
\* those renamed back; and an undo that ended without being cancelled has gone
\* through every operation of its entry, those after a failure included.
C30_UndoFailureCountedUndoGoesOn ==
    (obs.kind = "undo") =>
        LET log == 1..Len(obs.undo_log)
        IN  /\ UndoCounts.errors = Cardinality({k \in log : RenameFailedAt(k)})
            /\ UndoCounts.skipped = Cardinality({k \in log : PassedOverAt(k)})
            /\ UndoCounts.restored = Cardinality({k \in log : RenamedBackAt(k)})
            /\ (UndoEnded /\ ~UndoCounts.cancelled) => Len(obs.undo_log) = UndoCounts.total

\* the reverse rename of the first operation failed on a locked file, the undo
\* went on and restored the file of the second
C30_Witness ==
    /\ UndoEnded
    /\ ~UndoCounts.cancelled
    /\ Len(obs.undo_log) = 2
    /\ RenameFailedAt(1)
    /\ RenamedBackAt(2)
    /\ UndoCounts.errors = 1
    /\ UndoCounts.skipped = 0
    /\ UndoCounts.restored = 1

\* ------------------------------------------------------------------ C31
\* the names in dir that the plan leaves where they are: every name on disk
\* that is not the original name of a rename item
LeftInPlace(items, dir) ==
    {f.name : f \in {g \in obs.fs0 : g.dir = dir}}
        \ {items[k].original_name : k \in {j \in RenameItems(items) : items[j].dir = dir}}

\* C31: in the plan of a run, two rename items of the same directory never have
\* final names with the same name key, and the final name of a rename item
\* never has the name key of a name its directory keeps.
C31_FinalNamesCollisionFree ==
    obs.planned =>
        LET items == obs.plan.items
        IN  \A j \in RenameItems(items) :
               /\ \A k \in RenameItems(items) :
                     (j # k /\ items[j].dir = items[k].dir)
                        => name_key(items[j].final_name) # name_key(items[k].final_name)
               /\ name_key(items[j].final_name)
                     \notin {name_key(n) : n \in LeftInPlace(items, items[j].dir)}

\* ------------------------------------------------------------------ C32
\* the name keys item k finds taken in its own directory: what the listing of
\* the directory has become under the items before it, and what they reserved
TakenInOwnDir(items, k) ==
    KeysAfter(items, k - 1, items[k].dir) \cup ReservedAfter(items, k - 1, items[k].dir)

\* rename items of different directories with the same base name
SameBaseElsewhere(items, j, k) ==
    /\ items[j].status = "rename"
    /\ items[k].status = "rename"
    /\ items[j].dir # items[k].dir
    /\ items[j].base_name = items[k].base_name

OnDisk(dir, name) ==
    dir \notin unlistable /\ name_key(name) \in {name_key(n) : n \in listdir(fs, dir)}

C33_ItemFieldsConsistent ==
    obs.planned =>
        \A k \in 1..Len(obs.plan.items) :
            LET it == obs.plan.items[k]
            IN  /\ it.final_name # NoName
                /\ it.status \in {"rename", "skip_prefix", "error"}
                /\ it.status \in {"skip_prefix", "error"} =>
                      (it.final_name = it.original_name /\ it.conflict_index = 0)
                /\ it.status = "rename" =>
                      /\ it.base_name # NoName
                      /\ it.final_name # it.original_name
                      /\ (it.conflict_index = 0) <=> (it.final_name = it.base_name)
                      /\ it.conflict_index # 0 =>
                            /\ it.conflict_index \in 1..max_tries
                            /\ it.final_name = Candidate(it.base_name, it.conflict_index)

\* a plan with an item skipped for its date prefix, a rename under the base
\* name and a rename under a numbered name
C33_Witness ==
    /\ obs.planned
    /\ \E i, j, k \in 1..Len(obs.plan.items) :
          /\ obs.plan.items[i].status = "skip_prefix"
          /\ obs.plan.items[j].status = "rename"
          /\ obs.plan.items[j].conflict_index = 0
          /\ obs.plan.items[k].status = "rename"
          /\ obs.plan.items[k].conflict_index = 1

\* ------------------------------------------------------------------ C34
\* the row of the store with the given id is marked undone
MarkedUndone(id) ==
    \E k \in 1..Len(history) : history[k].id = id /\ history[k].status = "undone"

\* operations of the entry of the latest undo that it did not go through and
\* whose renamed file is still at its new path
LeftUnrestored ==
    \E n \in 1..Len(history) :
       /\ history[n].id = obs.undo_entry
       /\ \E m \in 1..Len(history[n].ops) :
             /\ m \notin {obs.undo_trace[t] : t \in 1..Len(obs.undo_trace)}
             /\ exists(fs, ParsePath(history[n].ops[m].new).dir,
                           ParsePath(history[n].ops[m].new).name)

\* C34: an undo at work on an entry leads to the state where its loop has
\* ended and the entry is marked undone, however it ended.  An undo is never at
\* work on an entry that an undo has been through before, and once the undo of
\* an entry has ended the entry is not the one the next undo would take, also
\* when operations of it were left unrestored.
C34_EveryUndoMarksItsEntry ==
    /\ (worker.pc = "undo") ~> (UndoEnded /\ worker.pc = "idle" /\ MarkedUndone(obs.undo_entry))
    /\ []((UndoEnded /\ worker.pc = "idle") => MarkedUndone(obs.undo_entry))
    /\ [](worker.pc \in {"undo", "undo_finish"} =>
             (worker.entry_id \notin obs.undone /\ ~MarkedUndone(worker.entry_id)))
    /\ [](LET items == load_history(history)
              idx   == find_last_undoable(items)
          IN  idx # 0 => (items[idx].id \notin obs.undone /\ ~MarkedUndone(items[idx].id)))

\* an undo was cancelled after its first operation; the file of the second is
\* still under its new name, and the entry is marked undone
C34_Witness ==
    /\ UndoEnded
    /\ worker.pc = "idle"
    /\ UndoOutcome.cancelled
    /\ Len(obs.undo_trace) = 1
    /\ LeftUnrestored
    /\ MarkedUndone(obs.undo_entry)
    /\ find_last_undoable(load_history(history)) = 0

\* ------------------------------------------------------------------ C35
\* the files the scan of the latest run came across
ScannedFiles ==
    IF ui.is_single_file THEN {f \in obs.fs0 : f.dir = ui.dir /\ f.name = ui.name}
    ELSE ReadableFiles

FilteredOut == {f \in ScannedFiles : ~Kept(f, ui.filter)}

\* C35: in a plan that is not cancelled, scanned = matched + filtered_out and
\* the plan has matched items.  filtered_out counts the scanned files the
\* filter rejects; none of them has an item, none is the source of a rename
\* attempt of the run, and each is still where it was.
C35_FilteredFilesCountedNotPlanned ==
    (obs.planned /\ ~obs.plan.cancelled) =>
        /\ obs.plan.scanned = obs.plan.matched + obs.plan.filtered_out
        /\ Len(obs.plan.items) = obs.plan.matched
        /\ ~ui.is_single_file => obs.plan.filtered_out = Cardinality(FilteredOut)
        /\ \A f \in FilteredOut :
              /\ [dir |-> f.dir, name |-> f.name] \notin ItemPaths(obs.plan.items)
              /\ \A a \in 1..Len(obs.attempts) :
                    ~(obs.attempts[a].dir = f.dir /\ obs.attempts[a].src = f.name)
              /\ f \in fs

\* a real run under a filter that rejected one file and kept another, which it
\* renamed
C35_Witness ==
    /\ obs.planned
    /\ ~obs.plan.cancelled
    /\ ~obs.dry_run
    /\ obs.plan.filtered_out = 1
    /\ FilteredOut # {}
    /\ obs.plan.matched >= 1
    /\ \E a \in 1..Len(obs.attempts) : obs.attempts[a].ok

\* ------------------------------------------------------------------ C36
\* the run is at its end: the worker stands before its finally block
RunAtEnd == worker.pc = "finish"

Handled == worker.result.renamed + worker.result.skipped + worker.result.errors

RunCountsBounded ==
    /\ worker.result.conflicts <= worker.result.renamed + worker.result.errors
    /\ Len(worker.ops) = (IF worker.dry_run THEN 0 ELSE worker.result.renamed)

\* C36 as stated: at the end of a run renamed + skipped + errors <= total,
\* total is the number of plan items, equality holds exactly when the run
\* was not cancelled, conflicts <= renamed + errors, and the recorded
\* operations number renamed in a real run and 0 in a dry run.
C36_RunCountsAddUp ==
    RunAtEnd =>
        /\ Handled <= worker.result.total
        /\ worker.result.total = Len(obs.plan.items)
        /\ (Handled = worker.result.total) <=> ~worker.result.cancelled
        /\ RunCountsBounded

\* C36, amended: a run whose plan came back cancelled ends cancelled with total
\* and every count 0 and no operation recorded, whatever items the plan holds.
\* Any other run ends with total the number of plan items and
\* renamed + skipped + errors <= total, with equality exactly when it was not
\* cancelled.  In both cases conflicts <= renamed + errors and the recorded
\* operations number renamed in a real run and 0 in a dry run.
C36_RunCountsAddUpUnlessPlanCancelled ==
    RunAtEnd =>
        /\ obs.planned
        /\ obs.plan.cancelled =>
              /\ worker.result.cancelled
              /\ worker.result.total = 0
              /\ Handled = 0
              /\ worker.result.conflicts = 0
              /\ worker.ops = <<>>
        /\ ~obs.plan.cancelled =>
              /\ worker.result.total = Len(obs.plan.items)
              /\ Handled <= worker.result.total
              /\ (Handled = worker.result.total) <=> ~worker.result.cancelled
        /\ RunCountsBounded

\* a real run that went through all its items: one skipped for its prefix,
\* one renamed under a numbered name
C36_Witness ==
    /\ RunAtEnd
    /\ ~worker.dry_run
    /\ ~worker.result.cancelled
    /\ worker.result.total >= 2
    /\ Handled = worker.result.total
    /\ worker.result.skipped >= 1
    /\ worker.result.renamed >= 1
    /\ worker.result.conflicts >= 1
    /\ Len(worker.ops) = worker.result.renamed

\* ------------------------------------------------------------------ C37
\* the undo is at its end: the worker stands before its finally block
UndoAtEnd == worker.pc = "undo_finish"

UndoHandled == worker.ures.restored + worker.ures.skipped + worker.ures.errors

\* the entries of the history file that carry the id the undo was started for
EntryOfUndo == {k \in 1..Len(load_history(history)) :
                   load_history(history)[k].id = worker.entry_id}

\* C37: at the end of an undo, restored + skipped + errors <= total, total is
\* the number of operations of the entry, and the sum equals total when the
\* undo was not cancelled.  Every pass of the loop that goes through an
\* operation adds one to exactly one of restored, skipped and errors, and no
\* operation is gone through twice.
C37_UndoCountsAddUp ==
    /\ [](UndoAtEnd =>
             /\ EntryOfUndo # {}
             /\ \A k \in EntryOfUndo :
                   worker.ures.total = Len(load_history(history)[k].ops)
             /\ UndoHandled <= worker.ures.total
             /\ ~worker.ures.cancelled => UndoHandled = worker.ures.total
             /\ \A a, b \in 1..Len(obs.undo_trace) :
                   obs.undo_trace[a] = obs.undo_trace[b] => a = b)
    /\ [][(worker.pc = "undo" /\ obs'.undo_trace # obs.undo_trace) =>
             LET d_restored == worker'.ures.restored - worker.ures.restored
                 d_skipped  == worker'.ures.skipped - worker.ures.skipped
                 d_errors   == worker'.ures.errors - worker.ures.errors
             IN  /\ {d_restored, d_skipped, d_errors} = {0, 1}
                 /\ d_restored + d_skipped + d_errors = 1
                 /\ Len(obs'.undo_trace) = Len(obs.undo_trace) + 1]_vars

\* an undo of two operations went through both, restored one and passed the
\* other over
C37_Witness ==
    /\ UndoAtEnd
    /\ ~worker.ures.cancelled
    /\ worker.ures.total = 2
    /\ worker.ures.restored = 1
    /\ worker.ures.skipped = 1
    /\ Len(obs.undo_trace) = 2

\* ------------------------------------------------------------------ C38
\* the worker of the run or undo in flight has set cancelled in its result
WorkerSawCancel ==
    worker.pc # "idle" /\ (worker.result.cancelled \/ worker.ures.cancelled)

\* a run or an undo starts
StartsRun == started' = started + 1

\* C38: while no run is in flight no step sets the cancel signal, so a cancel
\* request made then changes nothing.  The start of a run or of an undo leaves
\* the signal cleared and its worker with cancelled unset.  While a run is in
\* flight the signal is set by a cancel request only, and a worker sets
\* cancelled only when the signal is set: a run or undo that started after a
\* cancelled one ends cancelled only if cancel was requested after its start.
C38_CancelOnlyTheRunInFlight ==
    /\ [][(~processing /\ ~StartsRun) => cancel_event' = cancel_event]_vars
    /\ [][StartsRun =>
             /\ ~processing /\ processing'
             /\ ~cancel_event'
             /\ ~worker'.result.cancelled /\ ~worker'.ures.cancelled]_vars
    /\ [][(cancel_event' /\ ~cancel_event) =>
             /\ processing /\ processing'
             /\ UNCHANGED <<worker, fs, history, q, started>>]_vars
    /\ [](WorkerSawCancel => cancel_event)
    /\ [][(WorkerSawCancel' /\ ~WorkerSawCancel) => cancel_event]_vars

\* the run was cancelled in its executor after a rename; the undo started after
\* it went through its operations with no cancel request and is not cancelled
C38_Witness ==
    /\ obs.kind = "undo"
    /\ worker.pc = "undo_finish"
    /\ obs.planned
    /\ ~obs.plan.cancelled
    /\ Len(obs.attempts) < Cardinality(RenameItems(obs.plan.items))
    /\ ~cancel_event
    /\ ~worker.ures.cancelled
    /\ worker.ures.restored >= 1

\* ------------------------------------------------------------------ C39
Inflight(kind) ==
    IF kind = "precheck" THEN view.precheck_inflight ELSE view.preview_inflight

\* the result of request n of a kind was taken from the queue and displayed
Applied(kind, n) == \E k \in 1..Len(UsedTokens(kind)) : UsedTokens(kind)[k] = n

\* the result of request n of a kind is still being computed or is queued
Awaited(kind, n) ==
    \/ n \in ThreadTokens(kind)
    \/ \E k \in QueuedAt(kind) : q[k].token = n

\* C39: an in-flight flag that is set is cleared in the end, in whatever order
\* the threads finish.  The flag is set by a new request of its kind only and
\* is set exactly while the result of the latest request is awaited; whenever
\* it is clear, the result of the latest request has been displayed.  So once
\* no more requests are issued the result of the latest one is displayed and
\* the flag cleared, and a stale result that is dropped neither clears the
\* flag nor leaves it set.
C39_LatestResultApplied ==
    /\ \A kind \in PlanningKinds : Inflight(kind) ~> ~Inflight(kind)
    /\ [][\A kind \in PlanningKinds :
             (Inflight(kind)' /\ ~Inflight(kind))
                => CurrentToken(kind)' = CurrentToken(kind) + 1]_vars
    /\ [](\A kind \in PlanningKinds :
             /\ Inflight(kind) <=>
                   (CurrentToken(kind) > 0 /\ Awaited(kind, CurrentToken(kind)))
             /\ (CurrentToken(kind) > 0 /\ ~Inflight(kind))
                   => Applied(kind, CurrentToken(kind)))

\* the first estimate came back after the second request and was dropped; the
\* second came back, was displayed, and the in-flight flag is cleared
C39_Witness ==
    /\ precheck_token = 2
    /\ Len(Seen("precheck")) = 2
    /\ Seen("precheck")[1].token = 1 /\ ~Seen("precheck")[1].used
    /\ Seen("precheck")[2].token = 2 /\ Seen("precheck")[2].used
    /\ ~view.precheck_inflight
    /\ threads = {}
    /\ q = <<>>

=============================================================================
